---- MODULE Spec2Model ----
(***************************************************************************)
(* Model of the kalandra server core: RoomManager (validation, sequencing, *)
(* commit handling), the Sequencer and Storage it drives, and the two      *)
(* drivers that execute its actions: the stream tasks of lib.rs and the    *)
(* call-then-store loop of the integration tests.                          *)
(***************************************************************************)
EXTENDS Integers, Sequences, FiniteSets, TLC

\* ------------------------------------------------------------------ bounds

\* Frames the server receives in one run (each gets a distinct payload).
MaxFrames == 3
\* Highest epoch a room is driven to.
MaxEpoch == 1
\* Frames received in a run that interleaves several rooms.
MaxMultiFrames == 4
\* Frames stored in a run of sync requests, and the largest batch a catching-up
\* client asks for.
MaxSyncFrames == 4
MaxSyncLimit == 2
\* Frames stored in a run that fills a log beyond one default batch.
MaxCapFrames == 101
\* Calls of store_frame in a run against the storage alone, and the largest
\* index, start and limit they name.
MaxStoreCalls == 4
MaxStoreIdx == 3
\* Seconds a connection's clock can show since its last activity.
MaxElapsed == 12
\* Highest epoch a client's room is driven to, messages a client sends in one
\* epoch, and the highest generation of a message of the other member.
MaxClientEpoch == 1
MaxGeneration == 3
MaxPeerGeneration == 1
\* Events of a scenario that is run twice.
MaxSimEvents == 4
MaxWorldOps == 5
MaxClients == 2
\* ConnectionConfig of the connection under test, in seconds.
handshake_timeout == 5
idle_timeout == 10
heartbeat_interval == 3
\* SyncRequest.limit when the request names none: default_limit().
DefaultLimit == 100

Rooms == {1}
\* Every room id the manager and the storage can hold; the rooms beyond Rooms
\* are driven only where several rooms are interleaved.
AllRooms == {1, 2}
Members == {1, 2}
\* Members that create rooms.
Creators == {1}
Tasks == {1, 2}
Opcodes == {"AppMessage", "Commit", "Proposal"}

\* sequencer: a room it has not loaded from storage yet
Uninit == -1

VARIABLES
    groups,          \* RoomManager.groups: room -> MlsGroup
    room_metadata,   \* RoomManager.room_metadata: room -> creator (0: none)
    next_log_index,  \* Sequencer: room -> next index (Uninit: not loaded)
    stored,          \* Storage: room -> the frame log
    mls_states,      \* Storage: room -> persisted MlsGroupState
    pending,         \* task -> actions returned by process_event, not yet executed
    bcast,           \* history: room -> log indices broadcast, in broadcast order
    accepted,        \* history: room -> frames process_frame accepted, in order
    lostIdx,         \* history: room -> process_frame failed after sequencing
    nframes,         \* frames received so far
    last,            \* the last API call: its input and what it returned
    sync_client,     \* a client catching up by SyncRequest batches
    conn,            \* a Connection: its state, and the last call made on it
    client,          \* a Client: its rooms, and the last call of handle
    runs,            \* two runs of one scenario from one seed
    world            \* the reference model and the real clients, op by op

vars == <<groups, room_metadata, next_log_index, stored, mls_states, pending,
          bcast, accepted, lostIdx, nframes, last, sync_client, conn, client,
          runs, world>>

\* What lies outside the server: no server call touches it.
clientVars == <<sync_client, conn, client, runs, world>>

\* The server's side: no call on a connection touches it.
serverVars == <<groups, room_metadata, next_log_index, stored, mls_states,
                pending, bcast, accepted, lostIdx, nframes, last>>

\* ------------------------------------------------------------------ values

NoCommit == [kind |-> "none", member |-> 0]
BadCommit == [kind |-> "bad", member |-> 0]
CommitPayloads ==
    {[kind |-> k, member |-> m] : k \in {"add", "remove"}, m \in Members}
        \cup {BadCommit}

NoFrame ==
    [room |-> 0, sender |-> 0, epoch |-> 0, opcode |-> "none", log_index |-> 0,
     payload |-> 0, sig |-> FALSE, commit |-> NoCommit]

\* A frame as a client sends it: log_index 0, the server assigns it.
ClientFrame(r, s, e, op, p, sg, c) ==
    [room |-> r, sender |-> s, epoch |-> e, opcode |-> op, log_index |-> 0,
     payload |-> p, sig |-> sg, commit |-> c]

NoState == [exists |-> FALSE, epoch |-> 0, members |-> {}]
NoGroup ==
    [exists |-> FALSE, epoch |-> 0, members |-> {}, own |-> 0, pending |-> NoCommit]

Ok == [kind |-> "Ok", expected |-> 0, actual |-> 0]
Err(k) == [kind |-> k, expected |-> 0, actual |-> 0]
InvalidEpoch(e, a) == [kind |-> "InvalidEpoch", expected |-> e, actual |-> a]
Conflict(e, g) == [kind |-> "Conflict", expected |-> e, actual |-> g]
NotMember(s) == [kind |-> "NotMember", expected |-> 0, actual |-> s]

NoSync ==
    [frames |-> <<>>, has_more |-> FALSE, server_epoch |-> 0,
     from_log_index |-> 0, limit |-> 0]
NoClient ==
    [active |-> FALSE, from |-> 0, cursor |-> 0, received |-> <<>>,
     done |-> FALSE]

\* ------------------------------------------------------------------ MLS group

MlsGroup_new(creator) ==
    [exists |-> TRUE, epoch |-> 0, members |-> {creator}, own |-> creator,
     pending |-> NoCommit]

ApplyCommit(members, c) ==
    IF c.kind = "add" THEN members \cup {c.member} ELSE members \ {c.member}

has_mls_pending_commit(g) == g.pending # NoCommit

merge_pending_commit(g) ==
    [g EXCEPT !.epoch = @ + 1,
              !.members = ApplyCommit(@, g.pending),
              !.pending = NoCommit]

\* A peer's commit the group can merge: its sender is a member, and it adds a
\* non-member or removes a member other than its sender.
CommitValid(g, sender, c) ==
    /\ sender \in g.members
    /\ \/ c.kind = "add" /\ c.member \notin g.members
       \/ c.kind = "remove" /\ c.member \in g.members /\ c.member # sender

\* The commit the group produced itself and still holds as pending: it is
\* finalised by merge_pending_commit, not merged as a peer's.
OwnPendingCommit(g, sender, c) ==
    has_mls_pending_commit(g) /\ sender = g.own /\ c = g.pending

process_message(g, frame) ==
    IF OwnPendingCommit(g, frame.sender, frame.commit)
    THEN [ok |-> FALSE, group |-> g]
    ELSE IF CommitValid(g, frame.sender, frame.commit)
    THEN [ok |-> TRUE,
          group |-> [g EXCEPT !.epoch = @ + 1,
                              !.members = ApplyCommit(@, frame.commit)]]
    ELSE [ok |-> FALSE, group |-> g]

\* add_members_from_bytes with one KeyPackage, of member m: places a pending
\* commit on the group. It fails while another commit is pending or when m is
\* a member already.
add_members_from_bytes(g, m) ==
    IF has_mls_pending_commit(g) \/ m \in g.members
    THEN [ok |-> FALSE, group |-> g]
    ELSE [ok |-> TRUE, group |-> [g EXCEPT !.pending = [kind |-> "add", member |-> m]]]

\* MlsGroup::remove_members with one member id: fails for an unknown member
\* and for the caller itself.
Group_remove_members(g, m) ==
    IF has_mls_pending_commit(g) \/ m \notin g.members \/ m = g.own
    THEN [ok |-> FALSE, group |-> g]
    ELSE [ok |-> TRUE,
          group |-> [g EXCEPT !.pending = [kind |-> "remove", member |-> m]]]

\* leave_group: a self-Remove proposal for the caller to send; the group
\* itself stays as it is until some member commits the proposal.
leave_group(g) == [ok |-> TRUE, group |-> g]

export_group_state(g) ==
    [exists |-> TRUE, epoch |-> g.epoch, members |-> g.members]

is_member(state, s) == s \in state.members
has_member_key(state, s) == s \in state.members
validate_signature(frame, state) == frame.sig

\* ------------------------------------------------------------------ storage

\* Mutant: the number of stored frames instead of the last index.
latest_log_index_Count(r) == Len(stored[r])

\* latest_log_index(room): None (-1 here) for a room without frames.
latest_log_index(r) == Len(stored[r]) - 1

\* Mutant: the frame is appended whatever index the call names.
store_frame_NoCompare(log, log_index, frame) == Append(log, frame)

\* store_frame(room, log_index, frame): compare-and-set on the next index.
\* A Conflict leaves the log as it is.
store_frame(log, log_index, frame) ==
    IF log_index = Len(log) THEN Append(log, frame) ELSE log

StoreConflict(log, log_index) == log_index # Len(log)

\* What store_frame returns: Ok, or Conflict{expected, got}.
store_frame_result(log, log_index) ==
    IF StoreConflict(log, log_index) THEN Conflict(Len(log), log_index)
    ELSE Ok

\* load_frames(room, from, limit)
load_frames(r, from, limit) ==
    LET n == Len(stored[r])
        hi == IF from + limit < n THEN from + limit ELSE n
    IN  IF from >= n THEN <<>>
        ELSE [i \in 1..(hi - from) |-> stored[r][from + i]]

\* ------------------------------------------------------------------ sequencer

\* Mutant: a fresh sequencer starts a room at the latest stored index, not
\* the one after it.
SequencerIndex_FromLatest(r) ==
    IF next_log_index[r] = Uninit
    THEN (IF latest_log_index(r) < 0 THEN 0 ELSE latest_log_index(r))
    ELSE next_log_index[r]

\* Mutant: one counter for all rooms.
SequencerIndex_Shared(r) ==
    LET shared(q) ==
            IF next_log_index[q] = Uninit THEN Len(stored[q])
            ELSE next_log_index[q]
    IN  CHOOSE n \in {shared(q) : q \in AllRooms} :
            \A q \in AllRooms : shared(q) <= n

\* The index the sequencer gives the next frame of room r: its cached counter,
\* loaded from storage (latest_log_index + 1) the first time it sees the room.
SequencerIndex(r) ==
    IF next_log_index[r] = Uninit THEN latest_log_index(r) + 1
    ELSE next_log_index[r]

SeqAction(t, r, idx, f) ==
    [type |-> t, room |-> r, log_index |-> idx, frame |-> f,
     exclude_sender |-> FALSE, state |-> NoState]

\* Sequencer::process_frame: stamp the frame, advance the counter, and return
\* AcceptFrame, StoreFrame, BroadcastToRoom.
Sequencer_process_frame(frame) ==
    LET r == frame.room
        idx == SequencerIndex(r)
        f == [frame EXCEPT !.log_index = idx]
    IN  [next |-> idx + 1,
         actions |-> <<SeqAction("AcceptFrame", r, idx, f),
                       SeqAction("StoreFrame", r, idx, f),
                       SeqAction("BroadcastToRoom", r, idx, f)>>]

\* ------------------------------------------------------------------ RoomManager

has_room(r) == room_metadata[r] # 0

\* Mutant: the epoch is not compared with the group's.
validate_frame_basic_NoEpochCheck(frame, group, mls_state) ==
    IF mls_state.exists /\ ~is_member(mls_state, frame.sender)
    THEN NotMember(frame.sender)
    ELSE IF mls_state.exists /\ ~has_member_key(mls_state, frame.sender)
    THEN Err("MlsValidation")
    ELSE IF ~mls_state.exists /\ frame.epoch # 0
    THEN InvalidEpoch(0, frame.epoch)
    ELSE Ok

\* Mutant: expected and actual are swapped in the epoch error.
validate_frame_basic_SwappedEpochs(frame, group, mls_state) ==
    IF frame.epoch # group.epoch
    THEN InvalidEpoch(frame.epoch, group.epoch)
    ELSE IF mls_state.exists /\ ~is_member(mls_state, frame.sender)
    THEN NotMember(frame.sender)
    ELSE IF mls_state.exists /\ ~has_member_key(mls_state, frame.sender)
    THEN Err("MlsValidation")
    ELSE IF ~mls_state.exists /\ frame.epoch # 0
    THEN InvalidEpoch(0, frame.epoch)
    ELSE Ok

validate_frame_basic(frame, group, mls_state) ==
    IF frame.epoch # group.epoch
    THEN InvalidEpoch(group.epoch, frame.epoch)
    ELSE IF mls_state.exists /\ ~is_member(mls_state, frame.sender)
    THEN NotMember(frame.sender)
    ELSE IF mls_state.exists /\ ~has_member_key(mls_state, frame.sender)
    THEN Err("MlsValidation")
    ELSE IF ~mls_state.exists /\ frame.epoch # 0
    THEN InvalidEpoch(0, frame.epoch)
    ELSE Ok

\* TRUE when every sequenced frame that needs a signature check passes it.
validate_sequenced_actions_signatures(sequencer_actions, mls_state) ==
    \A i \in 1..Len(sequencer_actions) :
        LET a == sequencer_actions[i] IN
        \/ a.type = "RejectFrame"
        \/ a.frame.opcode \in {"Commit", "Proposal", "Welcome"}
        \/ ~mls_state.exists
        \/ validate_signature(a.frame, mls_state)

\* Mutant: the broadcast leaves the original sender out.
ConvertAction_ExcludeSender(a) ==
    CASE a.type = "AcceptFrame" -> [a EXCEPT !.type = "PersistFrame"]
      [] a.type = "StoreFrame" -> [a EXCEPT !.type = "PersistFrame"]
      [] a.type = "BroadcastToRoom" ->
            [a EXCEPT !.type = "Broadcast", !.exclude_sender = TRUE]
      [] OTHER -> [a EXCEPT !.type = "Reject"]

\* SequencerAction -> RoomAction
ConvertAction(a) ==
    CASE a.type = "AcceptFrame" -> [a EXCEPT !.type = "PersistFrame"]
      [] a.type = "StoreFrame" -> [a EXCEPT !.type = "PersistFrame"]
      [] a.type = "BroadcastToRoom" ->
            [a EXCEPT !.type = "Broadcast", !.exclude_sender = FALSE]
      [] OTHER -> [a EXCEPT !.type = "Reject"]

PersistMlsStateAction(r, state) ==
    [type |-> "PersistMlsState", room |-> r, log_index |-> 0, frame |-> NoFrame,
     exclude_sender |-> FALSE, state |-> state]

\* Mutant: Proposal frames are taken for commits too.
IsCommit_OrProposal(frame) == frame.opcode \in {"Commit", "Proposal"}

\* The commit step of process_frame: applies to Commit frames only.
IsCommit(frame) == frame.opcode = "Commit"

\* What step 5 of process_frame does to the group of a Commit frame.
CommitStep(group, frame) ==
    IF has_mls_pending_commit(group)
    THEN [ok |-> TRUE, group |-> merge_pending_commit(group)]
    ELSE process_message(group, frame)

\* RoomManager::process_frame: the result, the actions returned, and the
\* room's group and sequencer counter afterwards.
process_frame(frame) ==
    LET r == frame.room
        group == groups[r]
        mls_state == mls_states[r]
        unchanged(res) ==
            [res |-> res, actions |-> <<>>, group |-> group,
             next |-> next_log_index[r], sequenced |-> FALSE]
    IN  IF ~group.exists THEN unchanged(Err("RoomNotFound"))
        ELSE LET v == validate_frame_basic(frame, group, mls_state) IN
        IF v # Ok THEN unchanged(v)
        ELSE LET sq == Sequencer_process_frame(frame)
                 failed(res) ==
                    [res |-> res, actions |-> <<>>, group |-> group,
                     next |-> sq.next, sequenced |-> TRUE]
                 room_actions ==
                    [i \in 1..Len(sq.actions) |-> ConvertAction(sq.actions[i])]
        IN  IF ~validate_sequenced_actions_signatures(sq.actions, mls_state)
            THEN failed(Err("MlsValidation"))
            ELSE IF ~IsCommit(frame)
            THEN [res |-> Ok, actions |-> room_actions, group |-> group,
                  next |-> sq.next, sequenced |-> TRUE]
            ELSE LET c == CommitStep(group, frame) IN
                 IF ~c.ok THEN failed(Err("MlsValidation"))
                 ELSE [res |-> Ok,
                       actions |-> Append(room_actions,
                            PersistMlsStateAction(r, export_group_state(c.group))),
                       group |-> c.group, next |-> sq.next, sequenced |-> TRUE]

\* ------------------------------------------------------------------ driver

\* Mutant: the frame is appended without the compare-and-set.
ExecPersistFrame_Unchecked(st, a) ==
    [st EXCEPT !.stored[a.room] = Append(@, a.frame)]

\* One action of execute_actions against storage and the broadcast channel.
ExecPersistFrame(st, a) ==
    [st EXCEPT !.stored[a.room] = store_frame(@, a.log_index, a.frame)]

ExecOne(st, a) ==
    CASE a.type = "PersistFrame" -> ExecPersistFrame(st, a)
      [] a.type = "PersistMlsState" -> [st EXCEPT !.mls[a.room] = a.state]
      [] a.type = "Broadcast" ->
            [st EXCEPT !.bcast[a.room] = Append(@, a.frame.log_index)]
      [] OTHER -> st

RECURSIVE ExecFrom(_, _, _)
ExecFrom(actions, i, st) ==
    IF i > Len(actions) THEN st
    ELSE ExecFrom(actions, i + 1, ExecOne(st, actions[i]))

\* execute_actions: every action of the list, in order.
execute_actions(actions) ==
    ExecFrom(actions, 1, [stored |-> stored, mls |-> mls_states, bcast |-> bcast])

\* What store_frame returns to each PersistFrame of the list, in order, as
\* execute_actions runs it (the executor logs an Err and goes on).
RECURSIVE PersistResultsFrom(_, _, _)
PersistResultsFrom(actions, i, st) ==
    IF i > Len(actions) THEN <<>>
    ELSE LET a == actions[i]
             rest == PersistResultsFrom(actions, i + 1, ExecOne(st, a))
         IN  IF a.type = "PersistFrame"
             THEN <<store_frame_result(st.stored[a.room], a.log_index)>> \o rest
             ELSE rest

PersistResults(actions) ==
    PersistResultsFrom(actions, 1,
                       [stored |-> stored, mls |-> mls_states, bcast |-> bcast])

\* ------------------------------------------------------------------ connection

ConnStates == {"Init", "Pending", "Authenticated", "Closed"}
SessionIds == {1, 2}
ConnOpcodes ==
    {"Hello", "HelloReply", "Ping", "Pong", "Goodbye", "Error", "AppMessage"}

\* A received frame: its opcode, whether its payload decodes, and the session
\* id a HelloReply carries.
ConnFrames ==
    [opcode : ConnOpcodes, valid : BOOLEAN, session_id : SessionIds]

\* Connection::new: Init, no session id. op, opcode, prev and ok record the
\* last call made on the connection, the state it found and whether it
\* returned Ok; arg is the session id the received frame carried, waited the
\* seconds the state's deadline had run when a tick looked at it.
Connection_new ==
    [state |-> "Init", session_id |-> 0, hello_sent |-> FALSE, elapsed |-> 0,
     op |-> "new", opcode |-> "none", prev |-> "Init", ok |-> TRUE,
     sent |-> "none", arg |-> 0, waited |-> 0]

ConnCall(c, op, opcode, state, ok, sent) ==
    [c EXCEPT !.op = op, !.opcode = opcode, !.prev = c.state, !.state = state,
              !.ok = ok, !.sent = sent, !.arg = 0, !.waited = 0]

\* Mutant: a closed connection can start a new handshake.
Connection_send_hello_Reopen(c) ==
    IF c.state \in {"Init", "Closed"}
    THEN [ConnCall(c, "send_hello", "none", "Pending", TRUE, "Hello")
            EXCEPT !.hello_sent = TRUE, !.elapsed = 0]
    ELSE ConnCall(c, "send_hello", "none", c.state, FALSE, "none")

\* Connection::send_hello: Ok only in Init, which it leaves for Pending.
Connection_send_hello(c) ==
    IF c.state = "Init"
    THEN [ConnCall(c, "send_hello", "none", "Pending", TRUE, "Hello")
            EXCEPT !.hello_sent = TRUE, !.elapsed = 0]
    ELSE ConnCall(c, "send_hello", "none", c.state, FALSE, "none")

\* Mutant: a HelloReply is taken before any Hello was sent.
AcceptsHelloReply_Unsolicited(c, frame) ==
    c.state \in {"Init", "Pending"} /\ frame.valid

\* Mutant: an authenticated connection takes a further HelloReply.
AcceptsHelloReply_Again(c, frame) ==
    c.state \in {"Pending", "Authenticated"} /\ c.hello_sent /\ frame.valid

\* A HelloReply completes the handshake of a connection that sent Hello.
AcceptsHelloReply(c, frame) ==
    c.state = "Pending" /\ c.hello_sent /\ frame.valid

\* Connection::handle_frame. challenge: the server side answers a Hello with
\* a challenge and stays Pending; close_on_error: where the specification
\* leaves open whether a rejected frame closes the connection, both happen.
Connection_handle_frame(c, frame, challenge, close_on_error) ==
    LET call(state, ok, sent) ==
            [ConnCall(c, "handle_frame", frame.opcode, state, ok, sent)
                EXCEPT !.elapsed = IF c.state = "Closed" THEN @ ELSE 0,
                       !.arg = frame.session_id]
        reject ==
            call(IF close_on_error THEN "Closed" ELSE c.state, FALSE, "none")
    IN  IF c.state = "Closed" THEN call("Closed", FALSE, "none")
        ELSE IF frame.opcode = "Goodbye" THEN call("Closed", TRUE, "none")
        ELSE IF frame.opcode = "HelloReply"
        THEN IF AcceptsHelloReply(c, frame)
             THEN [call("Authenticated", TRUE, "none")
                    EXCEPT !.session_id = frame.session_id]
             ELSE IF c.state = "Init" THEN call("Closed", FALSE, "none")
             ELSE reject
        ELSE IF c.state = "Init"
        THEN IF frame.opcode = "Hello" /\ frame.valid
             THEN [call(IF challenge THEN "Pending" ELSE "Authenticated",
                        TRUE, "HelloReply")
                    EXCEPT !.session_id = frame.session_id]
             ELSE call("Closed", FALSE, "none")
        ELSE IF c.state = "Pending" THEN reject
        ELSE \* Authenticated
             IF frame.opcode = "Hello" THEN reject
             ELSE IF frame.opcode = "Ping" THEN call(c.state, TRUE, "Pong")
             ELSE call(c.state, TRUE, "none")

\* Mutant: the two deadlines are taken for each other.
TimedOut_SwappedDeadlines(c, elapsed) ==
    \/ c.state = "Pending" /\ elapsed > idle_timeout
    \/ c.state = "Authenticated" /\ elapsed > handshake_timeout

\* The deadline of the connection's state has passed.
TimedOut(c, elapsed) ==
    \/ c.state = "Pending" /\ elapsed > handshake_timeout
    \/ c.state = "Authenticated" /\ elapsed > idle_timeout

\* Connection::tick at a time `advance` seconds later: Close when the state's
\* deadline has passed, a Ping when a heartbeat is due.
Connection_tick(c, advance) ==
    LET e == IF c.elapsed + advance > MaxElapsed THEN MaxElapsed
             ELSE c.elapsed + advance
        d == [c EXCEPT !.elapsed = e]
        call(state, sent) ==
            [ConnCall(d, "tick", "none", state, TRUE, sent) EXCEPT !.waited = e]
    IN  IF TimedOut(c, e) THEN call("Closed", "Close")
        ELSE IF c.state = "Authenticated" /\ e >= heartbeat_interval
        THEN call(c.state, "Ping")
        ELSE call(c.state, "none")

\* Connection::check_timeout: a question about a time, no transition.
Connection_check_timeout(c, advance) ==
    ConnCall(c, "check_timeout", "none", c.state,
             ~TimedOut(c, c.elapsed + advance), "none")

\* Connection::close
Connection_close(c) == ConnCall(c, "close", "none", "Closed", TRUE, "none")

\* The events the fuzz target feeds a connection, in any order.
ConnSendHello ==
    /\ conn' = Connection_send_hello(conn)
    /\ UNCHANGED <<serverVars, sync_client, client, runs, world>>

ConnReceiveFrame ==
    /\ \E frame \in ConnFrames, challenge \in BOOLEAN, close_on_error \in BOOLEAN :
        conn' = Connection_handle_frame(conn, frame, challenge, close_on_error)
    /\ UNCHANGED <<serverVars, sync_client, client, runs, world>>

ConnTick ==
    /\ \E advance \in {0, 3, 6} : conn' = Connection_tick(conn, advance)
    /\ UNCHANGED <<serverVars, sync_client, client, runs, world>>

ConnCheckTimeout ==
    /\ \E advance \in {0, 6, 11} : conn' = Connection_check_timeout(conn, advance)
    /\ UNCHANGED <<serverVars, sync_client, client, runs, world>>

ConnClose ==
    /\ conn' = Connection_close(conn)
    /\ UNCHANGED <<serverVars, sync_client, client, runs, world>>

\* ------------------------------------------------------------------ client

\* The rooms a client is asked about, and the rooms it receives commits for.
ClientRoomIds == {1, 2}
CommitRooms == {1}
\* ClientIdentity.sender_id of the client under test: the member that creates
\* its rooms.
ClientSenderId == 1
Plaintexts == {"p1", "p2"}
\* Leaf of a member in the ratchet tree: the creator is leaf 0.
LeafIndex(m) == m - 1
Leaves == {LeafIndex(m) : m \in Members}
\* SenderKeyStore: generation of a leaf that has no chain in the store.
NoKey == -1

\* ClientError
RoomNotFound(room_id) ==
    [err |-> "RoomNotFound", room_id |-> room_id, expected |-> 0, actual |-> 0,
     kind |-> "none"]
RoomAlreadyExists(room_id) ==
    [err |-> "RoomAlreadyExists", room_id |-> room_id, expected |-> 0,
     actual |-> 0, kind |-> "none"]
EpochMismatch(expected, actual) ==
    [err |-> "EpochMismatch", room_id |-> 0, expected |-> expected,
     actual |-> actual, kind |-> "none"]
ClientErrorOf(err, kind) ==
    [err |-> err, room_id |-> 0, expected |-> 0, actual |-> 0, kind |-> kind]
NoError == ClientErrorOf("none", "none")

\* SenderKeyError::is_fatal
SenderKeyError_is_fatal(kind) == kind \in {"AeadFailed", "UnknownSender"}

\* ClientError::is_fatal
is_fatal(e) ==
    CASE e.err \in {"InvalidFrame", "InvalidState", "Mls"} -> TRUE
      [] e.err = "SenderKey" -> SenderKeyError_is_fatal(e.kind)
      [] e.err \in {"RoomNotFound", "RoomAlreadyExists", "EpochMismatch",
                    "SyncRequired"} -> FALSE

\* MlsGroup accessors the client uses.
own_leaf_index(g) == LeafIndex(g.own)
member_leaf_indices(g) == {LeafIndex(m) : m \in g.members}

\* EncryptedMessage. The ciphertext is opaque: it names the message key that
\* opens it and holds the plaintext.
EncryptedMessage(epoch, sender_index, generation, plaintext) ==
    [epoch |-> epoch, sender_index |-> sender_index, generation |-> generation,
     nonce |-> "random",
     ciphertext |-> <<[key |-> <<epoch, sender_index, generation>>,
                       plain |-> plaintext]>>]
NoMessage == EncryptedMessage(0, 0, 0, "none")

\* SenderKeyStore::initialize_epoch: one chain per member leaf, generation 0.
initialize_epoch(epoch, member_indices) ==
    [epoch |-> epoch,
     gens |-> [l \in Leaves |-> IF l \in member_indices THEN 0 ELSE NoKey],
     skipped |-> {}]
NoStore == initialize_epoch(0, {})

\* SenderKeyStore::generation
generation(store, leaf) == store.gens[leaf]

\* SenderKeyStore::encrypt: the message carries the chain's current
\* generation, and the chain advances by one.
encrypt(store, leaf, plaintext) ==
    IF store.gens[leaf] = NoKey
    THEN [ok |-> FALSE, kind |-> "UnknownSender", store |-> store,
          message |-> NoMessage]
    ELSE [ok |-> TRUE, kind |-> "none",
          store |-> [store EXCEPT !.gens[leaf] = @ + 1],
          message |-> EncryptedMessage(store.epoch, leaf, store.gens[leaf],
                                       plaintext)]

\* SenderKeyStore::decrypt. One chain per sender, shared by encrypt and
\* decrypt: a generation below the chain's was consumed, unless its key was
\* skipped over and cached; a generation at or above it moves the chain past
\* it and caches the keys skipped.
decrypt(store, m) ==
    LET s == m.sender_index
        g == m.generation
        fail(kind) ==
            [ok |-> FALSE, kind |-> kind, store |-> store, plaintext |-> "none"]
        done(st) ==
            [ok |-> TRUE, kind |-> "none", store |-> st,
             plaintext |-> m.ciphertext[1].plain]
    IN  IF m.epoch # store.epoch THEN fail("NoKeyForEpoch")
        ELSE IF s \notin Leaves \/ store.gens[s] = NoKey THEN fail("UnknownSender")
        ELSE IF m.ciphertext[1].key # <<m.epoch, s, g>> THEN fail("AeadFailed")
        ELSE IF <<s, g>> \in store.skipped
        THEN done([store EXCEPT !.skipped = @ \ {<<s, g>>}])
        ELSE IF g < store.gens[s] THEN fail("TooOldGeneration")
        ELSE done([store EXCEPT
                    !.gens[s] = g + 1,
                    !.skipped = @ \cup {<<s, k>> : k \in store.gens[s]..(g - 1)}])

\* serialize_encrypted_message: the fields in order, the ciphertext behind its
\* length.
serialize_encrypted_message(e) ==
    [epoch |-> e.epoch, sender_index |-> e.sender_index,
     generation |-> e.generation, nonce |-> e.nonce,
     ciphertext_len |-> Len(e.ciphertext), bytes |-> e.ciphertext]
\* A payload shorter than the 44 bytes in front of the ciphertext.
ShortPayload ==
    [epoch |-> 0, sender_index |-> 0, generation |-> 0, nonce |-> "none",
     ciphertext_len |-> -1, bytes |-> <<>>]

\* deserialize_encrypted_message
deserialize_encrypted_message(data) ==
    IF data.ciphertext_len < 0 THEN [ok |-> FALSE, message |-> NoMessage]
    ELSE IF Len(data.bytes) < data.ciphertext_len
    THEN [ok |-> FALSE, message |-> NoMessage]
    ELSE [ok |-> TRUE,
          message |-> [epoch |-> data.epoch, sender_index |-> data.sender_index,
                       generation |-> data.generation, nonce |-> data.nonce,
                       ciphertext |-> SubSeq(data.bytes, 1, data.ciphertext_len)]]

\* A frame as the client builds and receives it. commit is the content of a
\* Commit frame.
WireFrame(opcode, room_id, sender_id, epoch, log_index, payload, commit) ==
    [opcode |-> opcode, room_id |-> room_id, sender_id |-> sender_id,
     epoch |-> epoch, log_index |-> log_index, payload |-> payload,
     commit |-> commit]
NoWireFrame == WireFrame("none", 0, 0, 0, 0, ShortPayload, NoCommit)

\* ClientAction
SendAction(frame) ==
    [type |-> "Send", frame |-> frame, room_id |-> frame.room_id,
     sender_id |-> 0, plaintext |-> "none", log_index |-> 0, epoch |-> 0,
     my_leaf_index |-> 0]
DeliverMessage(room_id, sender_id, plaintext, log_index) ==
    [type |-> "DeliverMessage", frame |-> NoWireFrame, room_id |-> room_id,
     sender_id |-> sender_id, plaintext |-> plaintext, log_index |-> log_index,
     epoch |-> 0, my_leaf_index |-> 0]
RoomRemoved(room_id) ==
    [type |-> "RoomRemoved", frame |-> NoWireFrame, room_id |-> room_id,
     sender_id |-> 0, plaintext |-> "none", log_index |-> 0, epoch |-> 0,
     my_leaf_index |-> 0]
PersistRoom(room_id, epoch, my_leaf_index) ==
    [type |-> "PersistRoom", frame |-> NoWireFrame, room_id |-> room_id,
     sender_id |-> 0, plaintext |-> "none", log_index |-> 0, epoch |-> epoch,
     my_leaf_index |-> my_leaf_index]
LogAction(room_id) ==
    [type |-> "Log", frame |-> NoWireFrame, room_id |-> room_id,
     sender_id |-> 0, plaintext |-> "none", log_index |-> 0, epoch |-> 0,
     my_leaf_index |-> 0]

\* RoomState. sends counts the messages sent since the room's epoch began and
\* sent_frame is the last frame sent: history, not fields of the struct.
RoomState(mls_group, sender_keys, my_leaf_index) ==
    [mls_group |-> mls_group, sender_keys |-> sender_keys,
     my_leaf_index |-> my_leaf_index, sends |-> 0, sent_frame |-> NoWireFrame]
\* Client.rooms has no entry for the room.
NoRoomState == RoomState(NoGroup, NoStore, 0)

\* contains_key
holds(rooms, room_id) == room_id \in ClientRoomIds /\ rooms[room_id].mls_group.exists

\* Client::room_count
room_count(rooms) == Cardinality({r \in ClientRoomIds : holds(rooms, r)})

\* Client::epoch
client_epoch(rooms, room_id) == rooms[room_id].mls_group.epoch

\* What a call of Client::handle returns and leaves behind: Ok(actions) or
\* Err(err), and the rooms.
Handled(rooms, actions) ==
    [ok |-> TRUE, err |-> NoError, actions |-> actions, rooms |-> rooms,
     stage |-> "done"]
Failed(rooms, err, stage) ==
    [ok |-> FALSE, err |-> err, actions |-> <<>>, rooms |-> rooms,
     stage |-> stage]

\* initialize_sender_keys
initialize_sender_keys(mls_group) ==
    initialize_epoch(mls_group.epoch, member_leaf_indices(mls_group))

\* Mutant: a duplicate CreateRoom starts the room over.
Client_handle_create_room_Overwrite(rooms, room_id) ==
    LET mls_group == MlsGroup_new(ClientSenderId)
        room_state == RoomState(mls_group, initialize_sender_keys(mls_group),
                                own_leaf_index(mls_group))
    IN  Handled([rooms EXCEPT ![room_id] = room_state],
                <<SendAction(WireFrame("MlsSetup", room_id, ClientSenderId, 0, 0,
                                       ShortPayload, NoCommit)),
                  LogAction(room_id)>>)

\* Client::handle_create_room. MlsGroup::new returns the group at epoch 0 and
\* its setup frame.
Client_handle_create_room(rooms, room_id) ==
    IF holds(rooms, room_id)
    THEN Failed(rooms, RoomAlreadyExists(room_id), "lookup")
    ELSE LET mls_group == MlsGroup_new(ClientSenderId)
             room_state == RoomState(mls_group, initialize_sender_keys(mls_group),
                                     own_leaf_index(mls_group))
         IN  Handled([rooms EXCEPT ![room_id] = room_state],
                     <<SendAction(WireFrame("MlsSetup", room_id, ClientSenderId,
                                            0, 0, ShortPayload, NoCommit)),
                       LogAction(room_id)>>)

\* MlsAction: what the MLS adapter hands back. None of them names a room.
MlsAction(type, frame, sender, plaintext) ==
    [type |-> type, frame |-> frame, sender |-> sender, plaintext |-> plaintext]
MlsSend(type, frame) == MlsAction(type, frame, 0, "none")
MlsDeliverMessage(sender, plaintext) ==
    MlsAction("DeliverMessage", NoWireFrame, sender, plaintext)
MlsRemoveGroup == MlsAction("RemoveGroup", NoWireFrame, 0, "none")
MlsLog == MlsAction("Log", NoWireFrame, 0, "none")

\* Client::convert_mls_actions: the room of DeliverMessage and RoomRemoved is
\* the literal 0, as are log index and timestamp.
convert_mls_actions(mls_actions) ==
    [i \in 1..Len(mls_actions) |->
        LET action == mls_actions[i] IN
        CASE action.type \in {"SendCommit", "SendProposal", "SendMessage",
                              "SendWelcome"} -> SendAction(action.frame)
          [] action.type = "DeliverMessage" ->
                DeliverMessage(0, action.sender, action.plaintext, 0)
          [] action.type = "RemoveGroup" -> RoomRemoved(0)
          [] OTHER -> LogAction(0)]

\* Client::handle_add_members with the KeyPackage of member m: the group
\* returns its Commit and the Welcome for m and keeps the commit as pending.
Client_handle_add_members(rooms, room_id, m) ==
    IF ~holds(rooms, room_id) THEN Failed(rooms, RoomNotFound(room_id), "lookup")
    ELSE LET room == rooms[room_id]
             added == add_members_from_bytes(room.mls_group, m)
             commit == WireFrame("Commit", room_id, ClientSenderId,
                                 room.mls_group.epoch, 0, ShortPayload,
                                 added.group.pending)
             welcome == WireFrame("Welcome", room_id, ClientSenderId,
                                  room.mls_group.epoch, 0, ShortPayload, NoCommit)
         IN  IF ~added.ok
             THEN Failed(rooms, ClientErrorOf("Mls", "none"), "add_members")
             ELSE Handled([rooms EXCEPT ![room_id].mls_group = added.group],
                          convert_mls_actions(<<MlsSend("SendCommit", commit),
                                                MlsSend("SendWelcome", welcome)>>))

\* Mutant: the frame carries the epoch of the sender keys' first message.
SendHeaderEpoch_Zero(room) == 0

\* The epoch handle_send_message writes into the header.
SendHeaderEpoch(room) == room.mls_group.epoch

\* Mutant: the ratchet is not advanced by a send.
SendStore_NoAdvance(room, encrypted) == room.sender_keys

\* The sender keys after handle_send_message encrypted.
SendStore(room, encrypted) == encrypted.store

\* Client::handle_send_message
Client_handle_send_message(rooms, room_id, plaintext) ==
    IF ~holds(rooms, room_id) THEN Failed(rooms, RoomNotFound(room_id), "lookup")
    ELSE LET room == rooms[room_id]
             encrypted == encrypt(room.sender_keys, room.my_leaf_index, plaintext)
             frame == WireFrame("AppMessage", room_id, ClientSenderId,
                                SendHeaderEpoch(room), 0,
                                serialize_encrypted_message(encrypted.message),
                                NoCommit)
         IN  IF ~encrypted.ok
             THEN Failed(rooms, ClientErrorOf("SenderKey", encrypted.kind), "encrypt")
             ELSE Handled([rooms EXCEPT
                            ![room_id].sender_keys = SendStore(room, encrypted),
                            ![room_id].sends = @ + 1,
                            ![room_id].sent_frame = frame],
                          <<SendAction(frame)>>)

\* Mutant: the epoch of the header is not compared with the room's.
AppEpochsDiffer_Never(frame_epoch, room_epoch) == FALSE

\* handle_app_message: frame_epoch != room_epoch
AppEpochsDiffer(frame_epoch, room_epoch) == frame_epoch # room_epoch

\* Mutant: decrypt works on a copy of the sender keys, which the room keeps
\* as they were.
ReceiveStore_Keep(room, decrypted) == room.sender_keys

\* The room's sender keys after handle_app_message decrypted.
ReceiveStore(room, decrypted) == decrypted.store

\* Client::handle_app_message
Client_handle_app_message(rooms, room_id, frame) ==
    IF ~holds(rooms, room_id) THEN Failed(rooms, RoomNotFound(room_id), "lookup")
    ELSE LET room == rooms[room_id]
             frame_epoch == frame.epoch
             room_epoch == room.mls_group.epoch
             encrypted == deserialize_encrypted_message(frame.payload)
             plaintext == decrypt(room.sender_keys, encrypted.message)
         IN  IF AppEpochsDiffer(frame_epoch, room_epoch)
             THEN Failed(rooms, EpochMismatch(room_epoch, frame_epoch), "epoch")
             ELSE IF ~encrypted.ok
             THEN Failed(rooms, ClientErrorOf("InvalidFrame", "none"), "deserialize")
             ELSE IF ~plaintext.ok
             THEN Failed(rooms, ClientErrorOf("SenderKey", plaintext.kind), "decrypt")
             ELSE Handled([rooms EXCEPT
                            ![room_id].sender_keys = ReceiveStore(room, plaintext)],
                          <<DeliverMessage(room_id, frame.sender_id,
                                           plaintext.plaintext, frame.log_index)>>)

\* Mutant: the sender keys of the old epoch are kept after a commit.
CommitStore_Keep(room, mls_group) == room.sender_keys

\* The sender keys handle_commit installs: initialised from the group after
\* the commit.
CommitStore(room, mls_group) == initialize_sender_keys(mls_group)

\* Client::handle_commit. mls_actions: what process_message returns for the
\* frame; export_ok: whether export_secret gives the secret of the new epoch.
Client_handle_commit(rooms, room_id, frame, export_ok, mls_actions) ==
    IF ~holds(rooms, room_id) THEN Failed(rooms, RoomNotFound(room_id), "lookup")
    ELSE LET room == rooms[room_id]
             processed == process_message(room.mls_group,
                                           [sender |-> frame.sender_id,
                                            commit |-> frame.commit])
             merged == [rooms EXCEPT ![room_id].mls_group = processed.group]
             leaf_index == own_leaf_index(processed.group)
             epoch == processed.group.epoch
         IN  IF ~processed.ok
             THEN Failed(rooms, ClientErrorOf("Mls", "none"), "process_message")
             ELSE IF ~export_ok
             THEN Failed(merged, ClientErrorOf("Mls", "none"), "export_secret")
             ELSE Handled([merged EXCEPT
                            ![room_id].sender_keys = CommitStore(room, processed.group),
                            ![room_id].my_leaf_index = leaf_index,
                            ![room_id].sends = 0],
                          Append(convert_mls_actions(mls_actions),
                                 PersistRoom(room_id, epoch, leaf_index)))

\* Client::handle_welcome
Client_handle_welcome(rooms, room_id, frame) ==
    Failed(rooms, ClientErrorOf("InvalidState", "none"), "welcome")

\* Client::handle_join_room
Client_handle_join_room(rooms, room_id) ==
    Failed(rooms, ClientErrorOf("InvalidState", "none"), "join")

\* Client::handle_frame. A Proposal goes to the group, which stores it: no
\* epoch change; what the group returns is converted.
Client_handle_frame(rooms, frame, export_ok, mls_actions) ==
    LET room_id == frame.room_id IN
    CASE frame.opcode = "Unknown" ->
            Failed(rooms, ClientErrorOf("InvalidFrame", "none"), "opcode")
      [] frame.opcode = "AppMessage" -> Client_handle_app_message(rooms, room_id, frame)
      [] frame.opcode = "Commit" ->
            Client_handle_commit(rooms, room_id, frame, export_ok, mls_actions)
      [] frame.opcode = "Welcome" -> Client_handle_welcome(rooms, room_id, frame)
      [] OTHER ->
            IF ~holds(rooms, room_id)
            THEN Failed(rooms, RoomNotFound(room_id), "lookup")
            ELSE Handled(rooms, convert_mls_actions(mls_actions))

\* Client::handle_tick
Client_handle_tick(rooms) == Handled(rooms, <<>>)

\* Mutant: the room is kept when it is left.
Client_handle_leave_room_Keep(rooms, room_id) ==
    IF ~holds(rooms, room_id) THEN Failed(rooms, RoomNotFound(room_id), "lookup")
    ELSE Handled(rooms, <<RoomRemoved(room_id)>>)

\* Client::handle_leave_room
Client_handle_leave_room(rooms, room_id) ==
    IF ~holds(rooms, room_id) THEN Failed(rooms, RoomNotFound(room_id), "lookup")
    ELSE Handled([rooms EXCEPT ![room_id] = NoRoomState],
                 <<RoomRemoved(room_id)>>)

\* What names a message: its room and the epoch, sender and generation its
\* payload carries.
MessageKey(frame) ==
    LET m == deserialize_encrypted_message(frame.payload).message
    IN  <<frame.room_id, m.epoch, m.sender_index, m.generation>>

\* Client::new, and the record of the last call of Client::handle: the event,
\* its room and frame, what it returned, and for history whether the room
\* had been left since it was last created and the messages delivered in
\* the rooms held.
ClientCall(rooms, op, room_id, frame, res, left, delivered) ==
    [rooms |-> rooms, op |-> op, room_id |-> room_id, frame |-> frame,
     ok |-> res.ok, err |-> res.err, actions |-> res.actions,
     stage |-> res.stage, left |-> left, delivered |-> delivered]
Client_new ==
    ClientCall([r \in ClientRoomIds |-> NoRoomState], "new", 0, NoWireFrame,
               Handled(<<>>, <<>>), {}, {})

\* Client::handle: the call and its record.
Client_handle(op, room_id, frame, res) ==
    client' = ClientCall(res.rooms, op, room_id, frame, res,
                         IF op = "LeaveRoom" /\ res.ok
                         THEN client.left \cup {room_id}
                         ELSE IF op = "CreateRoom" /\ res.ok
                         THEN client.left \ {room_id}
                         ELSE client.left,
                         IF op \in {"CreateRoom", "LeaveRoom"} /\ res.ok
                         THEN {k \in client.delivered : k[1] # room_id}
                         ELSE IF /\ op = "FrameReceived"
                                 /\ frame.opcode = "AppMessage"
                                 /\ res.ok
                         THEN client.delivered \cup {MessageKey(frame)}
                         ELSE client.delivered)

\* ------------------------------------------------------------------ simulation

SimSeeds == {0, 1}
SimRuns == {1, 2}
\* Seconds a scenario lets pass in one step.
SimAdvances == {0, 3, 6, 11}
SimEvents ==
    {[kind |-> k, secs |-> 0] : k \in {"handshake", "ping", "close"}}
        \cup {[kind |-> "advance", secs |-> a] : a \in SimAdvances}

\* Mutant: a random number comes from state of the process, which differs
\* from run to run.
random_u64_Ambient(seed, drawn, run) == run

\* Environment::random_u64 of the simulation: the next number of the seeded
\* stream. run names the process the scenario runs in.
random_u64(seed, drawn, run) == ((seed + drawn) % 2) + 1

\* What a scenario run has built: the two ends of a connection, the frames
\* each end sent and received, the random numbers drawn, and the actions the
\* two ends returned, in order.
SimWorld ==
    [client |-> Connection_new, server |-> Connection_new, drawn |-> 0,
     client_frames_sent |-> 0, server_frames_sent |-> 0,
     client_frames_received |-> 0, server_frames_received |-> 0,
     actions |-> <<>>]

SimFrame(opcode, session_id) ==
    [opcode |-> opcode, valid |-> TRUE, session_id |-> session_id]

\* One end hands a frame to the other, which handles it; the reply, if any,
\* goes back and is handled in turn.
SimExchange(w, from_client, frame) ==
    LET a == IF from_client THEN w.client ELSE w.server
        b == IF from_client THEN w.server ELSE w.client
        b1 == Connection_handle_frame(b, frame, FALSE, FALSE)
        replied == b1.sent # "none"
        reply == SimFrame(b1.sent, b1.session_id)
        a1 == IF replied THEN Connection_handle_frame(a, reply, FALSE, FALSE)
              ELSE a
        sent_a == 1
        sent_b == IF replied THEN 1 ELSE 0
        acts == <<[by |-> IF from_client THEN "client" ELSE "server",
                   frame |-> frame]>>
                \o (IF replied
                    THEN <<[by |-> IF from_client THEN "server" ELSE "client",
                            frame |-> reply]>>
                    ELSE <<>>)
    IN  [w EXCEPT
            !.client = IF from_client THEN a1 ELSE b1,
            !.server = IF from_client THEN b1 ELSE a1,
            !.client_frames_sent = @ + (IF from_client THEN sent_a ELSE sent_b),
            !.server_frames_sent = @ + (IF from_client THEN sent_b ELSE sent_a),
            !.client_frames_received = @ + (IF from_client THEN sent_b ELSE 1),
            !.server_frames_received = @ + (IF from_client THEN 1 ELSE sent_b),
            !.actions = @ \o acts]

\* One event of the scenario in one run.
SimStep(w, event, seed, run) ==
    CASE event.kind = "handshake" ->
            LET c == Connection_send_hello(w.client)
                w1 == [w EXCEPT !.client = c, !.drawn = @ + 1]
            IN  IF c.ok
                THEN SimExchange(w1, TRUE,
                                 SimFrame("Hello", random_u64(seed, w.drawn, run)))
                ELSE [w EXCEPT !.client = c]
      [] event.kind = "ping" ->
            IF w.client.state = "Authenticated"
            THEN SimExchange(w, TRUE, SimFrame("Ping", w.client.session_id))
            ELSE w
      [] event.kind = "close" ->
            [w EXCEPT !.client = Connection_close(w.client),
                      !.actions = Append(@, [by |-> "client",
                                             frame |-> SimFrame("Goodbye", 1)])]
      [] event.kind = "advance" ->
            LET c == Connection_tick(w.client, event.secs)
                s == Connection_tick(w.server, event.secs)
                act(by, x) ==
                    IF x.sent = "none" THEN <<>>
                    ELSE <<[by |-> by, frame |-> SimFrame(x.sent, 1)]>>
            IN  [w EXCEPT !.client = c, !.server = s,
                          !.actions = @ \o act("client", c) \o act("server", s)]

\* ScenarioState: what the oracle of the determinism test captures.
ScenarioState(w) ==
    [client_state |-> w.client.state, server_state |-> w.server.state,
     client_frames_sent |-> w.client_frames_sent,
     server_frames_sent |-> w.server_frames_sent,
     client_frames_received |-> w.client_frames_received,
     server_frames_received |-> w.server_frames_received]

\* No scenario started.
NoRuns ==
    [started |-> FALSE, seed |-> 0, events |-> <<>>,
     worlds |-> [i \in SimRuns |-> SimWorld]]

\* Scenario::new, twice, with one seed.
SimStart(seed) ==
    /\ ~runs.started
    /\ runs' = [NoRuns EXCEPT !.started = TRUE, !.seed = seed]
    /\ UNCHANGED <<serverVars, sync_client, conn, client, world>>

\* The next event, fed to both runs.
SimEvent(event) ==
    /\ runs.started
    /\ Len(runs.events) < MaxSimEvents
    /\ runs' = [runs EXCEPT
                    !.events = Append(@, event),
                    !.worlds = [i \in SimRuns |->
                                    SimStep(runs.worlds[i], event, runs.seed, i)]]
    /\ UNCHANGED <<serverVars, sync_client, conn, client, world>>

\* ------------------------------------------------------------------ reference model

\* The model-based test: operations drawn for up to four clients and clamped
\* to the clients of the run, applied to ModelWorld and to the real clients.
RawClientIds == 0..3
ModelRoomIds == {0, 1}
SmallMessages == {[seed |-> 42, size_class |-> 1], [seed |-> 7, size_class |-> 4]}
Millis == {0, 65535}

Operations ==
    [type : {"CreateRoom", "LeaveRoom"}, client_id : RawClientIds,
     room_id : ModelRoomIds, content : {SmallMessages}, millis : {0}]
    \cup [type : {"SendMessage"}, client_id : RawClientIds,
          room_id : ModelRoomIds, content : SmallMessages, millis : {0}]
    \cup [type : {"AdvanceTime"}, client_id : {0}, room_id : {0},
          content : {SmallMessages}, millis : Millis]

\* SmallMessage::to_bytes: the length from the size class, the bytes from the
\* seed (kept as length and first byte).
SmallMessage_to_bytes(m) ==
    [len |-> CASE m.size_class % 4 = 0 -> 0
               [] m.size_class % 4 = 1 -> 8
               [] m.size_class % 4 = 2 -> 64
               [] OTHER -> 256,
     first |-> m.seed]

clamp_client_id(op, num_clients) ==
    IF op.type = "AdvanceTime" THEN op
    ELSE [op EXCEPT !.client_id = @ % num_clients]

OpOk == "Ok"
OpError(e) == e
OperationResult_is_ok(res) == res = OpOk

ModelMessage(sender_id, content, log_index) ==
    [sender_id |-> sender_id, content |-> content, log_index |-> log_index]

\* ModelClient: per room, whether it is a membership, and the room's state.
NoModelRoom ==
    [present |-> FALSE, epoch |-> 0, messages |-> <<>>, next_send_index |-> 0]
ModelRoomState_new == [NoModelRoom EXCEPT !.present = TRUE]
ModelClient_new(id) == [id |-> id, rooms |-> [r \in ModelRoomIds |-> NoModelRoom]]

ModelClient_is_member(c, room_id) == c.rooms[room_id].present

ModelClient_create_room(c, room_id) ==
    IF ModelClient_is_member(c, room_id)
    THEN [result |-> OpError("RoomAlreadyExists"), client |-> c]
    ELSE [result |-> OpOk,
          client |-> [c EXCEPT !.rooms[room_id] = ModelRoomState_new]]

\* Mutant: leave_room reports Ok and keeps the room.
ModelClient_leave_room_Keep(c, room_id) ==
    IF ~ModelClient_is_member(c, room_id)
    THEN [result |-> OpError("NotMember"), client |-> c]
    ELSE [result |-> OpOk, client |-> c]

ModelClient_leave_room(c, room_id) ==
    IF ~ModelClient_is_member(c, room_id)
    THEN [result |-> OpError("NotMember"), client |-> c]
    ELSE [result |-> OpOk, client |-> [c EXCEPT !.rooms[room_id] = NoModelRoom]]

ModelClient_receive_message(c, room_id, message) ==
    IF ModelClient_is_member(c, room_id)
    THEN [c EXCEPT !.rooms[room_id].messages = Append(@, message)]
    ELSE c

ModelClient_advance_epoch(c, room_id) ==
    IF ModelClient_is_member(c, room_id)
    THEN [c EXCEPT !.rooms[room_id].epoch = @ + 1]
    ELSE c

\* ModelServer: per room its members, its messages in log order, its epoch.
NoServerRoom == [present |-> FALSE, members |-> {}, messages |-> <<>>, epoch |-> 0]
ModelServer_new == [r \in ModelRoomIds |-> NoServerRoom]

ModelServer_create_room(sv, room_id, creator) ==
    IF sv[room_id].present
    THEN [result |-> OpError("RoomAlreadyExists"), server |-> sv]
    ELSE [result |-> OpOk,
          server |-> [sv EXCEPT ![room_id] =
                        [NoServerRoom EXCEPT !.present = TRUE,
                                             !.members = {creator}]]]

ModelServer_add_member(sv, room_id, client_id) ==
    IF sv[room_id].present
    THEN [sv EXCEPT ![room_id].members = @ \cup {client_id}]
    ELSE sv

ModelServer_remove_member(sv, room_id, client_id) ==
    IF sv[room_id].present
    THEN [sv EXCEPT ![room_id].members = @ \ {client_id}]
    ELSE sv

ModelServer_advance_epoch(sv, room_id) ==
    IF sv[room_id].present THEN [sv EXCEPT ![room_id].epoch = @ + 1] ELSE sv

ModelServer_is_member(sv, room_id, client_id) ==
    sv[room_id].present /\ client_id \in sv[room_id].members

\* The log index the model server gives the next message of a room.
ModelServer_next_index(room) == Len(room.messages)

ModelServer_process_message(sv, room_id, sender_id, content) ==
    IF ~sv[room_id].present
    THEN [result |-> OpError("RoomNotFound"), server |-> sv,
          message |-> ModelMessage(sender_id, content, 0)]
    ELSE IF sender_id \notin sv[room_id].members
    THEN [result |-> OpError("NotMember"), server |-> sv,
          message |-> ModelMessage(sender_id, content, 0)]
    ELSE LET message == ModelMessage(sender_id, content,
                                     ModelServer_next_index(sv[room_id]))
         IN  [result |-> OpOk,
              server |-> [sv EXCEPT ![room_id].messages = Append(@, message)],
              message |-> message]

\* ModelWorld
ModelWorld_new(num_clients) ==
    [clients |-> [i \in 0..(num_clients - 1) |-> ModelClient_new(i)],
     server |-> ModelServer_new]

ModelApplied(result, w) == [result |-> result, world |-> w]

\* Mutant: the creator is not added to the server's member list.
ModelWorld_apply_create_room_NoAddMember(w, client_id, room_id) ==
    IF client_id \notin DOMAIN w.clients
    THEN ModelApplied(OpError("InvalidClient"), w)
    ELSE LET created == ModelClient_create_room(w.clients[client_id], room_id)
         IN  IF ~OperationResult_is_ok(created.result)
             THEN ModelApplied(created.result, w)
             ELSE ModelApplied(OpOk,
                    [w EXCEPT !.clients[client_id] = created.client])

ModelWorld_apply_create_room(w, client_id, room_id) ==
    IF client_id \notin DOMAIN w.clients
    THEN ModelApplied(OpError("InvalidClient"), w)
    ELSE LET created == ModelClient_create_room(w.clients[client_id], room_id)
             server ==
                ModelServer_add_member(
                    ModelServer_create_room(w.server, room_id, client_id).server,
                    room_id, client_id)
         IN  IF ~OperationResult_is_ok(created.result)
             THEN ModelApplied(created.result, w)
             ELSE ModelApplied(OpOk,
                    [w EXCEPT !.clients[client_id] = created.client,
                              !.server = server])

ModelWorld_apply_send_message(w, client_id, room_id, content) ==
    IF client_id \notin DOMAIN w.clients
    THEN ModelApplied(OpError("InvalidClient"), w)
    ELSE IF ~ModelClient_is_member(w.clients[client_id], room_id)
    THEN ModelApplied(OpError("NotMember"), w)
    ELSE LET processed ==
                ModelServer_process_message(w.server, room_id, client_id, content)
         IN  IF ~OperationResult_is_ok(processed.result)
             THEN ModelApplied(processed.result, w)
             ELSE ModelApplied(OpOk,
                    [w EXCEPT
                        !.server = processed.server,
                        !.clients = [i \in DOMAIN w.clients |->
                            IF i \in processed.server[room_id].members
                            THEN ModelClient_receive_message(
                                    w.clients[i], room_id, processed.message)
                            ELSE w.clients[i]]])

ModelWorld_apply_leave_room(w, client_id, room_id) ==
    IF client_id \notin DOMAIN w.clients
    THEN ModelApplied(OpError("InvalidClient"), w)
    ELSE LET left == ModelClient_leave_room(w.clients[client_id], room_id)
             clients == [w.clients EXCEPT ![client_id] = left.client]
         IN  IF ~OperationResult_is_ok(left.result)
             THEN ModelApplied(left.result, w)
             ELSE ModelApplied(OpOk,
                    [w EXCEPT
                        !.server = ModelServer_advance_epoch(
                            ModelServer_remove_member(w.server, room_id, client_id),
                            room_id),
                        !.clients = [i \in DOMAIN clients |->
                            ModelClient_advance_epoch(clients[i], room_id)]])

ModelWorld_apply(w, op) ==
    CASE op.type = "CreateRoom" ->
            ModelWorld_apply_create_room(w, op.client_id, op.room_id)
      [] op.type = "SendMessage" ->
            ModelWorld_apply_send_message(w, op.client_id, op.room_id,
                                          SmallMessage_to_bytes(op.content))
      [] op.type = "LeaveRoom" ->
            ModelWorld_apply_leave_room(w, op.client_id, op.room_id)
      [] OTHER -> ModelApplied(OpOk, w)

\* RealWorld of the test: one Client per model client, and the test's own
\* membership table. Model room r is the real room r + 1.
RealWorld_new(num_clients) ==
    [clients |-> [i \in 0..(num_clients - 1) |-> Client_new.rooms],
     room_membership |-> [i \in 0..(num_clients - 1) |->
                            [r \in ModelRoomIds |-> FALSE]]]

real_room_id(room_id) == room_id + 1

RealWorld_apply_create_room(rw, client_id, room_id) ==
    IF client_id \notin DOMAIN rw.clients
    THEN ModelApplied(OpError("InvalidClient"), rw)
    ELSE IF rw.room_membership[client_id][room_id]
    THEN ModelApplied(OpError("RoomAlreadyExists"), rw)
    ELSE LET result == Client_handle_create_room(rw.clients[client_id],
                                                 real_room_id(room_id))
         IN  IF result.ok
             THEN ModelApplied(OpOk,
                    [rw EXCEPT !.clients[client_id] = result.rooms,
                               !.room_membership[client_id][room_id] = TRUE])
             ELSE ModelApplied(OpError("RoomAlreadyExists"),
                    [rw EXCEPT !.clients[client_id] = result.rooms])

RealWorld_apply_send_message(rw, client_id, room_id, content) ==
    IF client_id \notin DOMAIN rw.clients
    THEN ModelApplied(OpError("InvalidClient"), rw)
    ELSE IF ~rw.room_membership[client_id][room_id]
    THEN ModelApplied(OpError("NotMember"), rw)
    ELSE LET result == Client_handle_send_message(rw.clients[client_id],
                            real_room_id(room_id), SmallMessage_to_bytes(content))
         IN  ModelApplied(IF result.ok THEN OpOk ELSE OpError("NotMember"),
                          [rw EXCEPT !.clients[client_id] = result.rooms])

RealWorld_apply_leave_room(rw, client_id, room_id) ==
    IF client_id \notin DOMAIN rw.clients
    THEN ModelApplied(OpError("InvalidClient"), rw)
    ELSE IF ~rw.room_membership[client_id][room_id]
    THEN ModelApplied(OpError("NotMember"), rw)
    ELSE LET result == Client_handle_leave_room(rw.clients[client_id],
                                                real_room_id(room_id))
         IN  IF result.ok
             THEN ModelApplied(OpOk,
                    [rw EXCEPT !.clients[client_id] = result.rooms,
                               !.room_membership[client_id][room_id] = FALSE])
             ELSE ModelApplied(OpError("NotMember"),
                    [rw EXCEPT !.clients[client_id] = result.rooms])

RealWorld_apply(rw, op) ==
    CASE op.type = "CreateRoom" ->
            RealWorld_apply_create_room(rw, op.client_id, op.room_id)
      [] op.type = "SendMessage" ->
            RealWorld_apply_send_message(rw, op.client_id, op.room_id, op.content)
      [] op.type = "LeaveRoom" ->
            RealWorld_apply_leave_room(rw, op.client_id, op.room_id)
      [] OTHER -> ModelApplied(OpOk, rw)

\* ObservableState: the rooms each client lists, and the server's messages of
\* the rooms some client lists.
client_rooms(w) ==
    [i \in DOMAIN w.clients |->
        {r \in ModelRoomIds : ModelClient_is_member(w.clients[i], r)}]

server_messages(w) ==
    [r \in UNION {client_rooms(w)[i] : i \in DOMAIN w.clients} |->
        w.server[r].messages]

\* One run of the test: the worlds, the number of operations applied so far,
\* the last one, and what it returned in each world.
NoOperation ==
    [type |-> "none", client_id |-> 0, room_id |-> 0, content |-> SmallMessages,
     millis |-> 0]
NoWorld ==
    [started |-> FALSE, num_clients |-> 0, model |-> ModelWorld_new(0),
     real |-> RealWorld_new(0), nops |-> 0, op |-> NoOperation,
     model_result |-> OpOk, real_result |-> OpOk]

WorldStart(num_clients) ==
    /\ ~world.started
    /\ world' = [NoWorld EXCEPT !.started = TRUE,
                                !.num_clients = num_clients,
                                !.model = ModelWorld_new(num_clients),
                                !.real = RealWorld_new(num_clients)]
    /\ UNCHANGED <<serverVars, sync_client, conn, client, runs>>

\* The test's loop body: clamp the operation, apply it to both worlds.
WorldApply(op) ==
    /\ world.started
    /\ world.nops < MaxWorldOps
    /\ LET clamped_op == clamp_client_id(op, world.num_clients)
           model == ModelWorld_apply(world.model, clamped_op)
           real == RealWorld_apply(world.real, clamped_op)
       IN  world' = [world EXCEPT !.model = model.world,
                                  !.real = real.world,
                                  !.nops = @ + 1,
                                  !.op = clamped_op,
                                  !.model_result = model.result,
                                  !.real_result = real.result]
    /\ UNCHANGED <<serverVars, sync_client, conn, client, runs>>

\* ------------------------------------------------------------------ state

LastCall(op, r, frame, res, actions, sync) ==
    [op |-> op, room |-> r, frame |-> frame, res |-> res, actions |-> actions,
     sync |-> sync,
     existed0 |-> IF r \in AllRooms THEN groups[r].exists ELSE FALSE,
     epoch0 |-> IF r \in AllRooms THEN groups[r].epoch ELSE 0,
     members0 |-> IF r \in AllRooms THEN groups[r].members ELSE {},
     hadState |-> IF r \in AllRooms THEN mls_states[r].exists ELSE FALSE,
     next0 |-> IF r \in AllRooms THEN next_log_index[r] ELSE Uninit]

Init ==
    /\ groups = [r \in AllRooms |-> NoGroup]
    /\ room_metadata = [r \in AllRooms |-> 0]
    /\ next_log_index = [r \in AllRooms |-> Uninit]
    /\ stored = [r \in AllRooms |-> <<>>]
    /\ mls_states = [r \in AllRooms |-> NoState]
    /\ pending = [t \in Tasks |-> <<>>]
    /\ bcast = [r \in AllRooms |-> <<>>]
    /\ accepted = [r \in AllRooms |-> <<>>]
    /\ lostIdx = [r \in AllRooms |-> FALSE]
    /\ nframes = 0
    /\ last = LastCall("none", 0, NoFrame, Ok, <<>>, NoSync)
    /\ sync_client = NoClient
    /\ conn = Connection_new
    /\ client = Client_new
    /\ runs = NoRuns
    /\ world = NoWorld

\* ------------------------------------------------------------------ client events

\* The frames that reach the client: the server's ordered copy of the frame
\* it sent last, application messages of the other member, a payload too
\* short to parse, commits of either member, and frames of other opcodes.
ClientEchoFrames(rooms) ==
    {[rooms[r].sent_frame EXCEPT !.log_index = i] :
        r \in {q \in ClientRoomIds : rooms[q].sent_frame # NoWireFrame},
        i \in 0..1}
PeerFrames ==
    {WireFrame("AppMessage", r, 2, e, 1,
               serialize_encrypted_message(
                   EncryptedMessage(e, LeafIndex(2), g, "p2")), NoCommit) :
        r \in ClientRoomIds, e \in 0..MaxClientEpoch, g \in 0..MaxPeerGeneration}
        \cup {WireFrame("AppMessage", r, 2, 0, 1, ShortPayload, NoCommit) :
                r \in ClientRoomIds}
\* A commit that removes the client itself is left out: what the group does
\* with it is not known.
ClientCommitFrames(rooms) ==
    {WireFrame("Commit", r, s, rooms[r].mls_group.epoch, 1, ShortPayload, c) :
        r \in {q \in CommitRooms : rooms[q].mls_group.epoch < MaxClientEpoch},
        s \in Members,
        c \in {p \in CommitPayloads :
                ~(p.kind = "remove" /\ p.member = ClientSenderId)}}
        \cup {WireFrame("Commit", r, 2, 0, 1, ShortPayload, BadCommit) :
                r \in ClientRoomIds \ CommitRooms}
OtherFrames ==
    {WireFrame(op, r, 2, 0, 1, ShortPayload, NoCommit) :
        op \in {"Welcome", "Proposal", "Unknown"}, r \in ClientRoomIds}

otherThanClient == <<serverVars, sync_client, conn, runs, world>>

ClientCreateRoom(room_id) ==
    /\ Client_handle("CreateRoom", room_id, NoWireFrame,
                     Client_handle_create_room(client.rooms, room_id))
    /\ UNCHANGED otherThanClient

ClientSendMessage(room_id, plaintext) ==
    /\ holds(client.rooms, room_id) =>
        generation(client.rooms[room_id].sender_keys,
                   client.rooms[room_id].my_leaf_index) < MaxGeneration
    /\ Client_handle("SendMessage", room_id, NoWireFrame,
                     Client_handle_send_message(client.rooms, room_id, plaintext))
    /\ UNCHANGED otherThanClient

ClientFrameReceived ==
    /\ \E frame \in ClientEchoFrames(client.rooms) \cup PeerFrames
                    \cup ClientCommitFrames(client.rooms) \cup OtherFrames :
        Client_handle("FrameReceived", frame.room_id, frame,
                      Client_handle_frame(client.rooms, frame, TRUE, <<>>))
    /\ UNCHANGED otherThanClient

\* AddMembers with the KeyPackage of one member.
ClientAddMembers(room_id, m) ==
    /\ Client_handle("AddMembers", room_id, NoWireFrame,
                     Client_handle_add_members(client.rooms, room_id, m))
    /\ UNCHANGED otherThanClient

\* What the MLS adapter may hand back from process_message, and a frame
\* received while export_secret may fail.
MlsActionLists ==
    {<<>>, <<MlsLog>>, <<MlsRemoveGroup>>, <<MlsDeliverMessage(2, "p2")>>}

ClientMlsFrameReceived ==
    /\ \E frame \in ClientCommitFrames(client.rooms) \cup OtherFrames,
          export_ok \in BOOLEAN, mls_actions \in MlsActionLists :
        Client_handle("FrameReceived", frame.room_id, frame,
                      Client_handle_frame(client.rooms, frame, export_ok,
                                          mls_actions))
    /\ UNCHANGED otherThanClient

ClientTick ==
    /\ Client_handle("Tick", 0, NoWireFrame, Client_handle_tick(client.rooms))
    /\ UNCHANGED otherThanClient

ClientLeaveRoom(room_id) ==
    /\ Client_handle("LeaveRoom", room_id, NoWireFrame,
                     Client_handle_leave_room(client.rooms, room_id))
    /\ UNCHANGED otherThanClient

ClientJoinRoom(room_id) ==
    /\ Client_handle("JoinRoom", room_id, NoWireFrame,
                     Client_handle_join_room(client.rooms, room_id))
    /\ UNCHANGED otherThanClient

\* ------------------------------------------------------------------ inputs

\* The frames a client can send next: any room, sender, epoch and opcode; an
\* AppMessage with a good or bad signature, a Commit with any content.
InputFrames ==
    {ClientFrame(r, s, e, "AppMessage", nframes + 1, sg, NoCommit) :
        r \in Rooms, s \in Members, e \in 0..MaxEpoch, sg \in BOOLEAN}
    \cup
    {ClientFrame(r, s, e, "Proposal", nframes + 1, TRUE, NoCommit) :
        r \in Rooms, s \in Members, e \in 0..MaxEpoch}
    \cup
    {ClientFrame(r, s, e, "Commit", nframes + 1, TRUE, c) :
        r \in Rooms, s \in Members, e \in 0..MaxEpoch, c \in CommitPayloads}

\* ------------------------------------------------------------------ operations

\* Mutant: create_room does not look the room up first and replaces it.
CreateRoom_Overwrite(r, creator) ==
    /\ groups' = [groups EXCEPT ![r] = MlsGroup_new(creator)]
    /\ room_metadata' = [room_metadata EXCEPT ![r] = creator]
    /\ last' = LastCall("create_room", r, NoFrame, Ok, <<>>, NoSync)
    /\ UNCHANGED <<next_log_index, stored, mls_states, pending, bcast, accepted,
                   lostIdx, nframes>>
    /\ UNCHANGED clientVars

\* RoomManager::create_room
CreateRoom(r, creator) ==
    /\ IF has_room(r)
       THEN /\ last' = LastCall("create_room", r, NoFrame,
                                Err("RoomAlreadyExists"), <<>>, NoSync)
            /\ UNCHANGED <<groups, room_metadata>>
       ELSE /\ groups' = [groups EXCEPT ![r] = MlsGroup_new(creator)]
            /\ room_metadata' = [room_metadata EXCEPT ![r] = creator]
            /\ last' = LastCall("create_room", r, NoFrame, Ok, <<>>, NoSync)
    /\ UNCHANGED <<next_log_index, stored, mls_states, pending, bcast, accepted,
                   lostIdx, nframes>>
    /\ UNCHANGED clientVars

\* The room's MLS state is put into storage (the harness does this before it
\* sends frames; the server itself stores it only after a commit).
StoreMlsState(r) ==
    /\ groups[r].exists
    /\ ~mls_states[r].exists
    /\ mls_states' = [mls_states EXCEPT ![r] = export_group_state(groups[r])]
    /\ last' = LastCall("store_mls_state", r, NoFrame, Ok, <<>>, NoSync)
    /\ UNCHANGED <<groups, room_metadata, next_log_index, stored, pending, bcast,
                   accepted, lostIdx, nframes>>
    /\ UNCHANGED clientVars

\* What a call of process_frame leaves behind in the manager and the history.
ProcessFrameEffect(frame, pf) ==
    /\ groups' = [groups EXCEPT ![frame.room] = pf.group]
    /\ next_log_index' = [next_log_index EXCEPT ![frame.room] = pf.next]
    /\ accepted' =
        IF pf.res = Ok
        THEN [accepted EXCEPT ![frame.room] =
                Append(@, [payload |-> frame.payload,
                           log_index |-> pf.actions[1].log_index,
                           epoch |-> groups[frame.room].epoch])]
        ELSE accepted
    /\ lostIdx' =
        IF pf.res # Ok /\ pf.sequenced
        THEN [lostIdx EXCEPT ![frame.room] = TRUE]
        ELSE lostIdx
    /\ nframes' = nframes + 1
    /\ last' = LastCall("process_frame", frame.room, frame, pf.res, pf.actions,
                        NoSync)

\* handle_stream, first critical section: process_event on a received frame.
\* The actions it returns wait for the task's second critical section.
ProcessEvent(t) ==
    /\ pending[t] = <<>>
    /\ nframes < MaxFrames
    /\ \E frame \in InputFrames :
        LET pf == process_frame(frame) IN
        /\ pf.group.epoch <= MaxEpoch
        /\ ProcessFrameEffect(frame, pf)
        /\ pending' = [pending EXCEPT ![t] = pf.actions]
    /\ UNCHANGED <<room_metadata, stored, mls_states, bcast>>
    /\ UNCHANGED clientVars

\* handle_stream, second critical section: execute_actions on what the task's
\* process_event returned.
ExecuteActions(t) ==
    /\ pending[t] # <<>>
    /\ LET st == execute_actions(pending[t]) IN
        /\ stored' = st.stored
        /\ mls_states' = st.mls
        /\ bcast' = st.bcast
    /\ pending' = [pending EXCEPT ![t] = <<>>]
    /\ UNCHANGED <<groups, room_metadata, next_log_index, accepted, lostIdx,
                   nframes, last>>
    /\ UNCHANGED clientVars

\* The tests' driver: process_frame, then every returned action at once.
HandleFrameOf(frame) ==
    LET pf == process_frame(frame)
        st == execute_actions(pf.actions)
    IN  /\ pf.group.epoch <= MaxEpoch
        /\ ProcessFrameEffect(frame, pf)
        /\ stored' = st.stored
        /\ mls_states' = st.mls
        /\ bcast' = st.bcast
        /\ UNCHANGED <<room_metadata, pending>>
        /\ UNCHANGED clientVars

HandleFrame ==
    /\ nframes < MaxFrames
    /\ \E frame \in InputFrames : HandleFrameOf(frame)

\* Application frames for any of several rooms, interleaved in any order.
MultiFrames ==
    {ClientFrame(r, s, e, "AppMessage", nframes + 1, TRUE, NoCommit) :
        r \in AllRooms, s \in Members, e \in 0..MaxEpoch}

MultiHandleFrame ==
    /\ nframes < MaxMultiFrames
    /\ \E frame \in MultiFrames : HandleFrameOf(frame)

\* RoomManager::add_members, remove_members and leave_room: the room's group
\* after the MLS call, or the error.
GroupCall(op, r, call) ==
    /\ IF ~groups[r].exists
       THEN /\ last' = LastCall(op, r, NoFrame, Err("RoomNotFound"), <<>>, NoSync)
            /\ UNCHANGED groups
       ELSE /\ groups' = [groups EXCEPT ![r] = call.group]
            /\ last' = LastCall(op, r, NoFrame,
                                IF call.ok THEN Ok ELSE Err("MlsValidation"),
                                <<>>, NoSync)
    /\ UNCHANGED <<room_metadata, next_log_index, stored, mls_states, pending,
                   bcast, accepted, lostIdx, nframes>>
    /\ UNCHANGED clientVars

AddMembers(r, m) == GroupCall("add_members", r, add_members_from_bytes(groups[r], m))

RemoveMembers(r, m) ==
    GroupCall("remove_members", r, Group_remove_members(groups[r], m))

LeaveRoom(r) == GroupCall("leave_room", r, leave_group(groups[r]))

\* Mutant: the index of the last loaded frame is taken one too high.
handle_sync_request_OffByOne(r, from_log_index, limit) ==
    LET frames == load_frames(r, from_log_index, limit)
        latest_index == latest_log_index(r)
        last_loaded_index ==
            IF frames = <<>>
            THEN (IF from_log_index = 0 THEN 0 ELSE from_log_index - 1)
            ELSE from_log_index + Len(frames)
        has_more == latest_index >= 0 /\ last_loaded_index < latest_index
    IN  [frames |-> frames, has_more |-> has_more,
         server_epoch |-> groups[r].epoch]

\* RoomManager::handle_sync_request
handle_sync_request(r, from_log_index, limit) ==
    LET frames == load_frames(r, from_log_index, limit)
        latest_index == latest_log_index(r)
        last_loaded_index ==
            IF frames = <<>>
            THEN (IF from_log_index = 0 THEN 0 ELSE from_log_index - 1)
            ELSE from_log_index + Len(frames) - 1
        has_more == latest_index >= 0 /\ last_loaded_index < latest_index
    IN  [frames |-> frames, has_more |-> has_more,
         server_epoch |-> groups[r].epoch]

\* The response with the request it answers, as the history keeps it.
SyncCall(r, from_log_index, limit) ==
    LET resp == handle_sync_request(r, from_log_index, limit) IN
    [frames |-> resp.frames, has_more |-> resp.has_more,
     server_epoch |-> resp.server_epoch,
     from_log_index |-> from_log_index, limit |-> limit]

\* What a call of handle_sync_request leaves behind: nothing but its result.
SyncEffect(r, from_log_index, limit) ==
    /\ last' =
        IF ~groups[r].exists
        THEN LastCall("handle_sync_request", r, NoFrame, Err("RoomNotFound"),
                      <<>>, NoSync)
        ELSE LastCall("handle_sync_request", r, NoFrame, Ok, <<>>,
                      SyncCall(r, from_log_index, limit))
    /\ UNCHANGED <<groups, room_metadata, next_log_index, stored, mls_states,
                   pending, bcast, accepted, lostIdx, nframes>>

\* Mutant: the room is not looked up before the frames are loaded.
SyncRequest_NoRoomLookup(r, from_log_index, limit) ==
    /\ last' = LastCall("handle_sync_request", r, NoFrame, Ok, <<>>,
                        SyncCall(r, from_log_index, limit))
    /\ UNCHANGED <<groups, room_metadata, next_log_index, stored, mls_states,
                   pending, bcast, accepted, lostIdx, nframes>>
    /\ UNCHANGED clientVars

SyncRequest(r, from_log_index, limit) ==
    /\ SyncEffect(r, from_log_index, limit)
    /\ UNCHANGED clientVars

\* Frames of the room's creator, accepted and stored one after the other.
SyncFrames ==
    {ClientFrame(r, c, 0, "AppMessage", nframes + 1, TRUE, NoCommit) :
        r \in Rooms, c \in Creators}

SyncHandleFrame ==
    /\ nframes < MaxSyncFrames
    /\ \E frame \in SyncFrames :
        /\ groups[frame.room].exists
        /\ HandleFrameOf(frame)

\* A long log: the creator's frames, up to MaxCapFrames of them.
CapHandleFrame ==
    /\ nframes < MaxCapFrames
    /\ \E frame \in SyncFrames :
        /\ groups[frame.room].exists
        /\ HandleFrameOf(frame)

\* The limits asked for over a long log: small, the default, and above it.
CapLimits == {1, DefaultLimit, DefaultLimit + 1, DefaultLimit + 50}

\* A client that missed frames starts to catch up from log index f.
ClientStart(r, f) ==
    /\ ~sync_client.active
    /\ groups[r].exists
    /\ sync_client' =
        [active |-> TRUE, from |-> f, cursor |-> f, received |-> <<>>,
         done |-> FALSE]
    /\ UNCHANGED <<groups, room_metadata, next_log_index, stored, mls_states,
                   pending, bcast, accepted, lostIdx, nframes, last>>
    /\ UNCHANGED <<conn, client, runs, world>>

\* One batch: SyncRequest from the index after the last frame received; the
\* client takes the frames of the response and stops when has_more is false.
ClientSync(r, limit) ==
    /\ sync_client.active
    /\ ~sync_client.done
    /\ groups[r].exists
    /\ SyncEffect(r, sync_client.cursor, limit)
    /\ LET resp == handle_sync_request(r, sync_client.cursor, limit) IN
        sync_client' =
            [sync_client EXCEPT
                !.received = @ \o resp.frames,
                !.cursor = IF resp.frames = <<>> THEN @
                           ELSE resp.frames[Len(resp.frames)].log_index + 1,
                !.done = ~resp.has_more]
    /\ UNCHANGED <<conn, client, runs, world>>

\* Storage::store_frame called directly, with any index.
StorageStore(r, i) ==
    /\ nframes < MaxStoreCalls
    /\ LET frame ==
            [ClientFrame(r, 1, 0, "AppMessage", nframes + 1, TRUE, NoCommit)
                EXCEPT !.log_index = i]
       IN  /\ stored' = [stored EXCEPT ![r] = store_frame(@, i, frame)]
           /\ last' = LastCall("store_frame", r, frame,
                               store_frame_result(stored[r], i), <<>>, NoSync)
    /\ nframes' = nframes + 1
    /\ UNCHANGED <<groups, room_metadata, next_log_index, mls_states, pending,
                   bcast, accepted, lostIdx>>
    /\ UNCHANGED clientVars

\* Storage::load_frames called directly.
StorageLoad(r, from, limit) ==
    /\ last' = LastCall("load_frames", r, NoFrame, Ok, <<>>,
                        [NoSync EXCEPT !.frames = load_frames(r, from, limit),
                                       !.from_log_index = from,
                                       !.limit = limit])
    /\ UNCHANGED <<groups, room_metadata, next_log_index, stored, mls_states,
                   pending, bcast, accepted, lostIdx, nframes>>
    /\ UNCHANGED clientVars

\* The sequencer is dropped and a fresh one is created over the same storage.
SequencerRestart ==
    /\ \E r \in AllRooms : next_log_index[r] # Uninit
    /\ next_log_index' = [r \in AllRooms |-> Uninit]
    /\ last' = LastCall("restart", 0, NoFrame, Ok, <<>>, NoSync)
    /\ UNCHANGED <<groups, room_metadata, stored, mls_states, pending, bcast,
                   accepted, lostIdx, nframes>>
    /\ UNCHANGED clientVars

\* ------------------------------------------------------------------ specifications

\* The manager driven as the tests drive it: one call at a time, the returned
\* actions executed before the next call.
Next ==
    \/ \E r \in Rooms, c \in Creators : CreateRoom(r, c)
    \/ \E r \in Rooms : StoreMlsState(r)
    \/ HandleFrame
    \/ \E r \in Rooms, m \in Members : AddMembers(r, m)
    \/ \E r \in Rooms, m \in Members : RemoveMembers(r, m)
    \/ \E r \in Rooms : LeaveRoom(r)
    \/ \E r \in Rooms, f \in 0..1 : SyncRequest(r, f, 1)
    \/ SequencerRestart

Spec == Init /\ [][Next]_vars

\* The manager behind the server's stream tasks (lib.rs): each task takes the
\* driver lock to process a frame, releases it, and takes it again to execute
\* the actions.
ConcNext ==
    \/ \E r \in Rooms, c \in Creators : CreateRoom(r, c)
    \/ \E r \in Rooms : StoreMlsState(r)
    \/ \E t \in Tasks : ProcessEvent(t)
    \/ \E t \in Tasks : ExecuteActions(t)
    \/ \E r \in Rooms, m \in Members : AddMembers(r, m)

ConcSpec == Init /\ [][ConcNext]_vars

\* Several rooms behind one manager, one sequencer and one storage, their
\* frames interleaved in any order (and the sequencer restarted in between).
MultiNext ==
    \/ \E r \in AllRooms, c \in Creators : CreateRoom(r, c)
    \/ \E r \in AllRooms : StoreMlsState(r)
    \/ MultiHandleFrame
    \/ SequencerRestart

MultiSpec == Init /\ [][MultiNext]_vars

\* A room whose log grows while sync requests of any range are answered and
\* a client catches up batch by batch.
SyncNext ==
    \/ \E r \in Rooms, c \in Creators : CreateRoom(r, c)
    \/ SyncHandleFrame
    \/ \E r \in Rooms, f \in 0..MaxSyncFrames, l \in 0..(MaxSyncLimit + 1) :
            SyncRequest(r, f, l)
    \/ \E r \in Rooms, f \in 0..MaxSyncFrames : ClientStart(r, f)
    \/ \E r \in Rooms, l \in 1..MaxSyncLimit : ClientSync(r, l)

SyncSpec == Init /\ [][SyncNext]_vars

\* A room whose log grows past the default batch size, asked for batches up
\* to and above that size.
CapNext ==
    \/ \E r \in Rooms, c \in Creators : CreateRoom(r, c)
    \/ CapHandleFrame
    \/ \E r \in Rooms, f \in 0..1, l \in CapLimits : SyncRequest(r, f, l)

CapSpec == Init /\ [][CapNext]_vars

\* The storage alone: store_frame with right and wrong indices, load_frames
\* over any range, in several rooms.
StorageNext ==
    \/ \E r \in AllRooms, i \in 0..MaxStoreIdx : StorageStore(r, i)
    \/ \E r \in AllRooms, f \in 0..MaxStoreIdx, l \in 0..MaxStoreIdx :
            StorageLoad(r, f, l)

StorageSpec == Init /\ [][StorageNext]_vars

\* One connection under any sequence of events.
ConnNext ==
    \/ ConnSendHello
    \/ ConnReceiveFrame
    \/ ConnTick
    \/ ConnCheckTimeout
    \/ ConnClose

ConnSpec == Init /\ [][ConnNext]_vars

\* A client alone, handed events in any order.
ClientNext ==
    \/ \E r \in ClientRoomIds : ClientCreateRoom(r)
    \/ \E r \in ClientRoomIds, p \in Plaintexts : ClientSendMessage(r, p)
    \/ ClientFrameReceived
    \/ ClientTick
    \/ \E r \in ClientRoomIds : ClientLeaveRoom(r)
    \/ \E r \in ClientRoomIds : ClientJoinRoom(r)
    \/ \E r \in CommitRooms, m \in Members : ClientAddMembers(r, m)

ClientSpec == Init /\ [][ClientNext]_vars

\* A client whose MLS adapter may return any of its actions and whose
\* export_secret may fail.
ClientMlsNext ==
    \/ \E r \in ClientRoomIds : ClientCreateRoom(r)
    \/ \E r \in ClientRoomIds, p \in Plaintexts : ClientSendMessage(r, p)
    \/ ClientMlsFrameReceived
    \/ \E r \in ClientRoomIds : ClientLeaveRoom(r)
    \/ \E r \in CommitRooms, m \in Members : ClientAddMembers(r, m)

ClientMlsSpec == Init /\ [][ClientMlsNext]_vars

\* The model-based test: one run, operation by operation.
WorldNext ==
    \/ \E n \in 2..MaxClients : WorldStart(n)
    \/ \E op \in Operations : WorldApply(op)

WorldSpec == Init /\ [][WorldNext]_vars

\* One scenario, run twice.
SimNext ==
    \/ \E seed \in SimSeeds : SimStart(seed)
    \/ \E event \in SimEvents : SimEvent(event)

SimSpec == Init /\ [][SimNext]_vars



\* The same, with a client that keeps asking while it has not caught up.
SyncLiveSpec ==
    /\ Init
    /\ [][SyncNext]_vars
    /\ WF_vars(\E r \in Rooms, l \in 1..MaxSyncLimit : ClientSync(r, l))

\* ------------------------------------------------------------------ claims

HasAction(actions, type) == \E i \in 1..Len(actions) : actions[i].type = type

StoredPayloads(r) == {stored[r][i].payload : i \in 1..Len(stored[r])}

AcceptPos(r, p) ==
    CHOOSE k \in 1..Len(accepted[r]) : accepted[r][k].payload = p

\* C1: in every room the persisted frames carry the log indices 0,1,2,...,n-1
\* in storage order (no gap, no duplicate), whatever accepted and rejected
\* frames were processed; and as long as every frame the sequencer took had
\* its store action executed, the persisted frames are exactly the accepted
\* ones.
C1_ConsecutiveIndices ==
    \A r \in Rooms :
        /\ \A i \in 1..Len(stored[r]) : stored[r][i].log_index = i - 1
        /\ ~lostIdx[r] => Len(stored[r]) = Len(accepted[r])

\* C1 witness: frames 1 and 3 are persisted at indices 0 and 1, frame 2
\* between them was rejected.
C1_Witness ==
    \E r \in Rooms :
        /\ ~lostIdx[r]
        /\ Len(stored[r]) = 2
        /\ stored[r][1].payload = 1
        /\ stored[r][2].payload = 3
        /\ stored[r][2].log_index = 1

\* C2: a frame whose sender is not a member of the room is rejected, is not
\* stored, and leaves the room's next log index where it was.
C2_NonMemberLeavesLogUnchanged ==
    (/\ last.op = "process_frame"
     /\ last.existed0
     /\ last.frame.sender \notin last.members0)
    => /\ last.res # Ok
       /\ last.frame.payload \notin StoredPayloads(last.room)
       /\ next_log_index[last.room] = last.next0

\* C3: the first frame a fresh sequencer accepts for a room gets the index
\* latest_log_index + 1 (0 for an empty room) and is persisted right after
\* the frames already stored.
C3_RestartContinuesLog ==
    [][\A r \in Rooms :
        (/\ next_log_index[r] = Uninit
         /\ nframes' = nframes + 1
         /\ last'.op = "process_frame"
         /\ last'.room = r
         /\ last'.res = Ok)
        => /\ last'.actions[1].log_index = latest_log_index(r) + 1
           /\ stored'[r] =
                Append(stored[r],
                       [last'.frame EXCEPT !.log_index = Len(stored[r])])]_vars

\* C3 witness: a sequencer that had not loaded the room accepted a frame at an
\* index above 0, so over a log an earlier sequencer had written.
C3_Witness ==
    /\ last.op = "process_frame"
    /\ last.res = Ok
    /\ last.next0 = Uninit
    /\ last.actions[1].log_index = 2
    /\ Len(stored[last.room]) = 3

C5_ConcurrentOrder ==
    \A r \in Rooms :
        ~lostIdx[r] =>
            /\ \A i, j \in 1..Len(bcast[r]) :
                i < j => bcast[r][i] < bcast[r][j]
            /\ \A i, j \in 1..Len(accepted[r]) :
                i # j => accepted[r][i].log_index # accepted[r][j].log_index
            /\ (\A t \in Tasks : pending[t] = <<>>)
                => \A k \in 1..Len(accepted[r]) :
                    accepted[r][k].payload \in StoredPayloads(r)

\* C6: a room starts at epoch 0, and its epoch changes only by +1 and only in
\* a process_frame call on a Commit frame that succeeds; add_members and
\* remove_members only place a pending commit.
C6_EpochStepsOnlyOnCommit ==
    [][\A r \in Rooms :
        /\ (~groups[r].exists /\ groups'[r].exists) => groups'[r].epoch = 0
        /\ groups'[r].epoch # groups[r].epoch
            => /\ groups'[r].epoch = groups[r].epoch + 1
               /\ last'.op = "process_frame"
               /\ last'.room = r
               /\ last'.frame.opcode = "Commit"
               /\ last'.res = Ok
        /\ (last'.op \in {"add_members", "remove_members"} /\ last'.room = r
                /\ last'.res = Ok /\ nframes' = nframes /\ last' # last)
            => /\ has_mls_pending_commit(groups'[r])
               /\ groups'[r].members = groups[r].members]_vars

\* C6 witness: a pending commit placed by add_members was merged by a Commit
\* frame, and the room moved from epoch 0 to 1.
C6_Witness ==
    /\ last.op = "process_frame"
    /\ last.frame.opcode = "Commit"
    /\ last.res = Ok
    /\ last.epoch0 = 0
    /\ groups[last.room].epoch = 1
    /\ groups[last.room].members = {1, 2}

\* C7: in each room's log the frame epochs never decrease along the log, and
\* every persisted frame carries the epoch the room had when it was accepted.
C7_LogEpochs ==
    \A r \in Rooms :
        /\ \A i, j \in 1..Len(stored[r]) :
            i < j => stored[r][i].epoch <= stored[r][j].epoch
        /\ \A i \in 1..Len(stored[r]) :
            \E k \in 1..Len(accepted[r]) :
                /\ accepted[r][k].payload = stored[r][i].payload
                /\ accepted[r][k].epoch = stored[r][i].epoch

\* C7 witness: a log that crosses an epoch boundary.
C7_Witness ==
    \E r \in Rooms :
        /\ Len(stored[r]) = 3
        /\ stored[r][1].epoch = 0
        /\ stored[r][3].epoch = 1

C9_NonMemberNeverSequenced ==
    (/\ last.op = "process_frame"
     /\ last.existed0
     /\ last.frame.sender \notin last.members0)
    => /\ last.res.kind \in {"NotMember", "InvalidEpoch", "MlsValidation"}
       /\ ~HasAction(last.actions, "PersistFrame")
       /\ ~HasAction(last.actions, "Broadcast")

\* C10: once a Commit has moved the room to epoch e+1, a well-signed
\* AppMessage of a current member is accepted when it carries epoch e+1 and
\* rejected when it carries epoch e, also while the commit's PersistMlsState
\* has not been executed yet.
C10_NewEpochAfterCommit ==
    (/\ last.op = "process_frame"
     /\ last.existed0
     /\ last.epoch0 >= 1
     /\ last.frame.opcode = "AppMessage"
     /\ last.frame.sig
     /\ last.frame.sender \in last.members0)
    => /\ last.frame.epoch = last.epoch0
            => /\ last.res = Ok
               /\ HasAction(last.actions, "PersistFrame")
               /\ HasAction(last.actions, "Broadcast")
       /\ last.frame.epoch = last.epoch0 - 1 => last.res # Ok

\* C11: for every accepted frame the actions process_frame returns hold a
\* PersistFrame and a Broadcast of that frame, every PersistFrame comes before
\* the Broadcast, the Broadcast does not exclude the sender, and both carry
\* the frame stamped with the log index the sequencer assigned.
C11_PersistBeforeBroadcast ==
    (last.op = "process_frame" /\ last.res = Ok)
    => LET a == last.actions
           idx == next_log_index[last.room] - 1
           stamped == [last.frame EXCEPT !.log_index = idx]
       IN  /\ \E i, j \in 1..Len(a) :
                i < j /\ a[i].type = "PersistFrame" /\ a[j].type = "Broadcast"
           /\ \A i, j \in 1..Len(a) :
                (a[i].type = "PersistFrame" /\ a[j].type = "Broadcast") => i < j
           /\ \A i \in 1..Len(a) :
                /\ a[i].type = "Broadcast" => ~a[i].exclude_sender
                /\ a[i].type \in {"PersistFrame", "Broadcast"}
                    => a[i].frame = stamped /\ a[i].room = last.room
                /\ a[i].type = "PersistFrame" => a[i].log_index = idx

\* C11 witness: the second frame of a room was accepted at log index 1.
C11_Witness ==
    /\ last.op = "process_frame"
    /\ last.res = Ok
    /\ last.next0 = 1
    /\ HasAction(last.actions, "Broadcast")
    /\ last.actions[1].frame.log_index = 1

\* C12: processing and storing a frame for one room leaves every other
\* room's next log index and stored log as they were; with the frames of
\* several rooms interleaved, each room's log holds the room's own accepted
\* frames at indices 0,1,2,..., and every stored frame lies in the log of the
\* room named in its header.
C12_RoomIsolation ==
    [][/\ nframes' = nframes + 1
            => \A q \in AllRooms \ {last'.room} :
                /\ next_log_index'[q] = next_log_index[q]
                /\ stored'[q] = stored[q]
       /\ \A r \in AllRooms :
            /\ \A i \in 1..Len(stored'[r]) :
                /\ stored'[r][i].log_index = i - 1
                /\ stored'[r][i].room = r
            /\ ~lostIdx'[r] => Len(stored'[r]) = Len(accepted'[r])]_vars

\* C12 witness: two rooms each hold two frames, stored alternately.
C12_Witness ==
    /\ Len(stored[1]) = 2
    /\ Len(stored[2]) = 2
    /\ stored[1][1].payload < stored[2][1].payload
    /\ stored[2][1].payload < stored[1][2].payload
    /\ stored[1][2].payload < stored[2][2].payload

\* C13: process_frame and handle_sync_request for a room that was never
\* created return RoomNotFound, return no action and no sync response, assign
\* no log index, store nothing, and do not create the room (has_room stays
\* false).
C13_UnknownRoom ==
    (last.op \in {"process_frame", "handle_sync_request"} /\ ~last.existed0)
    => /\ last.res = Err("RoomNotFound")
       /\ last.actions = <<>>
       /\ last.sync = NoSync
       /\ next_log_index[last.room] = last.next0
       /\ stored[last.room] = <<>>
       /\ ~has_room(last.room)
       /\ ~groups[last.room].exists

\* C13 witness: a frame for a room that does not exist was turned away.
C13_Witness ==
    /\ last.op = "process_frame"
    /\ ~last.existed0
    /\ last.res = Err("RoomNotFound")
    /\ nframes = 1

\* C14: handle_sync_request(from_log_index, limit) returns, in log order,
\* exactly the stored frames with indices from_log_index up to
\* min(from_log_index + limit, count) - 1, and has_more is true if and only if
\* some stored frame with an index at or above from_log_index is not in the
\* response (an empty response and limit 0 included).
C14_SyncPage ==
    (last.op = "handle_sync_request" /\ last.res = Ok)
    => LET from == last.sync.from_log_index
           n == Len(stored[last.room])
           upto == IF from + last.sync.limit < n
                   THEN from + last.sync.limit ELSE n
           count == IF upto > from THEN upto - from ELSE 0
       IN  /\ last.sync.frames =
                [i \in 1..count |-> stored[last.room][from + i]]
           /\ last.sync.has_more
                <=> \E k \in from..(n - 1) : ~(k < from + count)

\* C15: a client that starts at log index f and repeats SyncRequest from the
\* index after the last frame it received, with a limit of at least 1, holds
\* at every moment the stored frames f, f+1, ... in log order, each once; when
\* has_more comes back false it holds every stored frame with index >= f, the
\* sequence a connected client got by broadcast; and it gets there.
C15_Received ==
    sync_client.active
    => /\ \A i \in 1..Len(sync_client.received) :
            sync_client.received[i] = stored[1][sync_client.from + i]
       /\ sync_client.cursor = sync_client.from + Len(sync_client.received)

C15_Finished ==
    (sync_client'.done /\ ~sync_client.done)
    => LET got == sync_client'.received
           f == sync_client.from
       IN  /\ Len(got) = (IF Len(stored[1]) > f THEN Len(stored[1]) - f ELSE 0)
           /\ \A i \in 1..Len(got) : got[i].log_index = bcast[1][f + i]

C15_SyncLoop ==
    /\ []C15_Received
    /\ [][C15_Finished]_vars
    /\ (sync_client.active ~> sync_client.done)

\* C15 witness: starting at index 1, the client took three frames in more
\* than one batch and was told there are no more.
C15_Witness ==
    /\ sync_client.done
    /\ sync_client.from = 1
    /\ Len(sync_client.received) = 3
    /\ sync_client.received[3].log_index = 3

\* C16: a sync response never carries more frames than the smaller of the
\* requested limit and the server's cap of 100.
C16_SyncCapped ==
    (last.op = "handle_sync_request" /\ last.res = Ok)
    => /\ Len(last.sync.frames) <= last.sync.limit
       /\ Len(last.sync.frames) <= DefaultLimit

\* C17: store_frame(room, i, frame) succeeds only when i is the room's next
\* index (latest_log_index + 1, 0 for an empty room), and then appends the
\* frame; for any other i it returns Conflict{expected: next index, got: i}
\* and leaves the room's log and latest_log_index as they were.
C17_StoreCompareAndSet ==
    [][(last'.op = "store_frame" /\ nframes' = nframes + 1)
        => LET r == last'.room
               i == last'.frame.log_index
               next == latest_log_index(r) + 1
           IN  IF i = next
               THEN /\ last'.res = Ok
                    /\ stored'[r] = Append(stored[r], last'.frame)
               ELSE /\ last'.res = Conflict(next, i)
                    /\ stored'[r] = stored[r]
                    /\ Len(stored'[r]) - 1 = latest_log_index(r)]_vars

\* C17 witness: after frame 0, a store at index 2 came back as
\* Conflict{expected: 1, got: 2}.
C17_Witness ==
    /\ last.op = "store_frame"
    /\ last.res = Conflict(1, 2)
    /\ Len(stored[last.room]) = 1

\* C18: latest_log_index(room) is None (-1) when the room holds no frame and
\* the number of stored frames minus 1 otherwise; it grows by exactly 1 on a
\* successful store and not at all on a conflict; and load_frames(room, from,
\* limit) returns the frames with indices from .. min(from + limit, count) - 1
\* in ascending order.
C18_StorageInvariants ==
    [][/\ \A r \in AllRooms :
            /\ latest_log_index(r) =
                (IF stored[r] = <<>> THEN -1 ELSE Cardinality(DOMAIN stored[r]) - 1)
            /\ \A i \in 1..Len(stored'[r]) : stored'[r][i].log_index = i - 1
       /\ (last'.op = "store_frame" /\ nframes' = nframes + 1)
            => Len(stored'[last'.room]) - Len(stored[last'.room])
                = (IF last'.res = Ok THEN 1 ELSE 0)
       /\ last'.op = "load_frames"
            => LET r == last'.room
                   from == last'.sync.from_log_index
                   n == Len(stored[r])
                   upto == IF from + last'.sync.limit < n
                           THEN from + last'.sync.limit ELSE n
                   count == IF upto > from THEN upto - from ELSE 0
                   got == last'.sync.frames
               IN  /\ Len(got) = count
                   /\ \A k \in 1..count :
                        /\ got[k] = stored[r][from + k]
                        /\ got[k].log_index = from + k - 1]_vars

\* C18 witness: from a log of three frames, load_frames(1, 2) returned the
\* frames with indices 1 and 2.
C18_Witness ==
    /\ last.op = "load_frames"
    /\ Len(stored[last.room]) = 3
    /\ last.sync.from_log_index = 1
    /\ Len(last.sync.frames) = 2
    /\ last.sync.frames[2].log_index = 2

\* C19: Closed is terminal: once a connection is Closed, no send_hello,
\* handle_frame, tick, check_timeout or close, in any order and at any time,
\* moves it to another state.
C19_ClosedTerminal ==
    [][conn.state = "Closed" => conn'.state = "Closed"]_vars

\* C19 witness: a closed connection was handed a valid HelloReply and stayed
\* Closed.
C19_Witness ==
    /\ conn.prev = "Closed"
    /\ conn.state = "Closed"
    /\ conn.op = "handle_frame"
    /\ conn.opcode = "HelloReply"

C21_SessionIdImmutable ==
    [][conn.session_id # 0 => conn'.session_id = conn.session_id]_vars

\* C21 witness: an authenticated connection with session id 1 was handed a
\* valid HelloReply carrying session id 2 and kept id 1.
C21_Witness ==
    /\ conn.session_id = 1
    /\ conn.prev = "Authenticated"
    /\ conn.op = "handle_frame"
    /\ conn.opcode = "HelloReply"
    /\ conn.arg = 2

ClientCalled(op) == client' # client /\ client'.op = op

C25_Generations ==
    [][(ClientCalled("SendMessage") /\ client'.ok)
        => LET r == client'.room_id
               room == client.rooms[r]
               m == client'.actions[1].frame.payload
               before == room.sent_frame.payload
           IN  /\ m.generation = room.sends
               /\ m.sender_index = own_leaf_index(room.mls_group)
               /\ m.epoch = room.mls_group.epoch
               /\ generation(client'.rooms[r].sender_keys, m.sender_index)
                    = room.sends + 1
               /\ room.sent_frame # NoWireFrame
                    => \/ m.epoch > before.epoch
                       \/ m.epoch = before.epoch /\ m.generation > before.generation]_vars

\* C25 witness: the third message of epoch 1 carried generation 2.
C25_Witness ==
    /\ client.op = "SendMessage"
    /\ client.ok
    /\ client.actions[1].frame.payload.epoch = 1
    /\ client.actions[1].frame.payload.generation = 2
    /\ client.rooms[client.room_id].sends = 3

\* C26: an AppMessage whose header epoch differs from the epoch of the held
\* room returns EpochMismatch{expected: room epoch, actual: frame epoch},
\* which is not fatal, delivers nothing and leaves the room's epoch and every
\* ratchet generation as they were.
C26_EpochMismatch ==
    [][(/\ ClientCalled("FrameReceived")
        /\ client'.frame.opcode = "AppMessage"
        /\ holds(client.rooms, client'.room_id)
        /\ client'.frame.epoch # client_epoch(client.rooms, client'.room_id))
        => LET r == client'.room_id IN
           /\ ~client'.ok
           /\ client'.err = EpochMismatch(client_epoch(client.rooms, r),
                                          client'.frame.epoch)
           /\ ~is_fatal(client'.err)
           /\ client'.actions = <<>>
           /\ client_epoch(client'.rooms, r) = client_epoch(client.rooms, r)
           /\ client'.rooms[r].sender_keys = client.rooms[r].sender_keys]_vars

\* C26 witness: a client at epoch 0 that has sent a message received an
\* AppMessage of epoch 1 and returned EpochMismatch{expected: 0, actual: 1}.
C26_Witness ==
    /\ client.op = "FrameReceived"
    /\ client.frame.opcode = "AppMessage"
    /\ client.err = EpochMismatch(0, 1)
    /\ generation(client.rooms[client.room_id].sender_keys, 0) = 1

\* C27: a Commit frame the client processes successfully raises the room's
\* epoch by exactly 1, replaces the sender keys by a store initialised for the
\* new epoch (every member at generation 0), refreshes the own leaf index and
\* emits PersistRoom with the new epoch; a commit the group rejects leaves
\* epoch and sender keys as they were and emits no PersistRoom.
C27_Commit ==
    [][(/\ ClientCalled("FrameReceived")
        /\ client'.frame.opcode = "Commit"
        /\ holds(client.rooms, client'.room_id))
        => LET r == client'.room_id
               before == client.rooms[r]
               after == client'.rooms[r]
           IN  IF client'.ok
               THEN /\ after.mls_group.epoch = before.mls_group.epoch + 1
                    /\ after.sender_keys.epoch = after.mls_group.epoch
                    /\ \A l \in Leaves :
                        after.sender_keys.gens[l] =
                            IF l \in member_leaf_indices(after.mls_group)
                            THEN 0 ELSE NoKey
                    /\ after.sender_keys.skipped = {}
                    /\ after.my_leaf_index = own_leaf_index(after.mls_group)
                    /\ \E i \in 1..Len(client'.actions) :
                        client'.actions[i] =
                            PersistRoom(r, after.mls_group.epoch, after.my_leaf_index)
               ELSE client'.stage = "process_message"
                    => /\ after.mls_group.epoch = before.mls_group.epoch
                       /\ after.sender_keys = before.sender_keys
                       /\ client'.actions = <<>>]_vars

\* C27 witness: a commit took a room in which a message had been sent to
\* epoch 1, with both members at generation 0.
C27_Witness ==
    /\ client.op = "FrameReceived"
    /\ client.frame.opcode = "Commit"
    /\ client.ok
    /\ client_epoch(client.rooms, 1) = 1
    /\ client.rooms[1].sent_frame # NoWireFrame
    /\ client.rooms[1].sender_keys.gens = [l \in Leaves |-> 0]

\* C28: LeaveRoom on a held room removes it and emits RoomRemoved for it;
\* from then until the room is created again SendMessage and LeaveRoom for it
\* return RoomNotFound; LeaveRoom on a room not held returns RoomNotFound and
\* changes nothing.
C28_LeaveRoom ==
    [][client' # client
        => LET r == client'.room_id IN
           /\ client'.op = "LeaveRoom"
                => IF holds(client.rooms, r)
                   THEN /\ client'.ok
                        /\ ~holds(client'.rooms, r)
                        /\ client'.actions = <<RoomRemoved(r)>>
                        /\ r \in client'.left
                   ELSE /\ ~client'.ok
                        /\ client'.err = RoomNotFound(r)
                        /\ client'.rooms = client.rooms
           /\ (client'.op \in {"SendMessage", "LeaveRoom"} /\ r \in client.left)
                => /\ ~client'.ok
                   /\ client'.err = RoomNotFound(r)
           /\ (r \in client.left /\ r \notin client'.left)
                => client'.op = "CreateRoom" /\ client'.ok]_vars

\* C28 witness: SendMessage for a room the client had left returned
\* RoomNotFound.
C28_Witness ==
    /\ client.op = "SendMessage"
    /\ client.room_id \in client.left
    /\ client.err = RoomNotFound(client.room_id)

\* C29: a client that receives the server's ordered copy of the frame it sent
\* last, in the same room and epoch, decrypts it and emits DeliverMessage
\* with the plaintext it sent.
C29_EchoDelivered ==
    [][(/\ ClientCalled("FrameReceived")
        /\ client'.frame.opcode = "AppMessage"
        /\ holds(client.rooms, client'.room_id)
        /\ [client'.frame EXCEPT !.log_index = 0]
                = client.rooms[client'.room_id].sent_frame
        /\ client'.frame.epoch = client_epoch(client.rooms, client'.room_id))
        => /\ client'.ok
           /\ client'.actions =
                <<DeliverMessage(client'.room_id, ClientSenderId,
                                 client'.frame.payload.bytes[1].plain,
                                 client'.frame.log_index)>>]_vars

C32_FailureConsumesNothing ==
    [][(/\ last'.op = "process_frame"
        /\ nframes' = nframes + 1
        /\ last'.res # Ok
        /\ groups[last'.room].exists
        /\ validate_frame_basic(last'.frame, groups[last'.room],
                                mls_states[last'.room]) = Ok)
        => /\ (IF next_log_index'[last'.room] = Uninit
                THEN Len(stored'[last'.room])
                ELSE next_log_index'[last'.room]) = SequencerIndex(last'.room)
           /\ groups'[last'.room].epoch = groups[last'.room].epoch
           /\ groups'[last'.room].members = groups[last'.room].members]_vars

\* C33: the server merges its pending commit only when the processed Commit
\* frame is the commit it created itself; any other Commit frame is applied
\* through process_message or rejected, so after a processed Commit the
\* room's epoch and member list are those the frame's commit produces.
C33_MergeOnlyOwnCommit ==
    [][(/\ last'.op = "process_frame"
        /\ nframes' = nframes + 1
        /\ IsCommit(last'.frame)
        /\ groups[last'.room].exists
        /\ validate_frame_basic(last'.frame, groups[last'.room],
                                mls_states[last'.room]) = Ok)
        => LET g == groups[last'.room]
               own == /\ has_mls_pending_commit(g)
                      /\ last'.frame.commit = g.pending
                      /\ last'.frame.sender = g.own
               peer == process_message(g, last'.frame)
           IN  /\ groups'[last'.room].pending # g.pending => own
               /\ ~own => /\ last'.res = Ok <=> peer.ok
                          /\ groups'[last'.room].epoch = peer.group.epoch
                          /\ groups'[last'.room].members = peer.group.members
               /\ last'.res = Ok
                    => /\ groups'[last'.room].epoch = g.epoch + 1
                       /\ groups'[last'.room].members =
                            ApplyCommit(g.members, last'.frame.commit)]_vars

\* C34: executing in order all the actions process_frame returns for an
\* accepted frame stores the frame exactly once, at its log index, and no
\* store_frame of the run comes back as a Conflict.
C34_StoredOnceNoConflict ==
    [][(/\ last'.op = "process_frame"
        /\ nframes' = nframes + 1
        /\ last'.res = Ok)
        => LET r == last'.room
               results == PersistResults(last'.actions)
           IN  /\ \A i \in 1..Len(results) : results[i] = Ok
               /\ Len(stored'[r]) = Len(stored[r]) + 1
               /\ stored'[r][Len(stored'[r])] = last'.actions[1].frame
               /\ stored'[r][Len(stored'[r])].log_index = Len(stored[r])]_vars

C35_EpochFollowsServer ==
    [][/\ (/\ ClientCalled("FrameReceived")
           /\ client'.frame.opcode = "Commit"
           /\ holds(client.rooms, client'.room_id)
           /\ client'.frame.epoch = client_epoch(client.rooms, client'.room_id))
           => LET frame == [sender |-> client'.frame.sender_id,
                            commit |-> client'.frame.commit]
                  server == [client.rooms[client'.room_id].mls_group
                                EXCEPT !.own = 0, !.pending = NoCommit]
                  sequenced == CommitStep(server, frame)
              IN  sequenced.ok
                    => client_epoch(client'.rooms, client'.room_id)
                        = sequenced.group.epoch
       /\ \A r \in ClientRoomIds :
            (/\ holds(client.rooms, r) /\ holds(client'.rooms, r)
             /\ client_epoch(client'.rooms, r) # client_epoch(client.rooms, r))
            => /\ client'.op = "FrameReceived"
               /\ client'.frame.opcode = "Commit"
               /\ client'.ok]_vars

\* C36: in every client state each held room's sender keys are those
\* initialised for the epoch of the room's MLS group, and the own leaf index
\* is the group's, also after a Commit whose processing failed part-way.
C36_SenderKeysOfCurrentEpoch ==
    \A r \in ClientRoomIds :
        holds(client.rooms, r)
        => /\ client.rooms[r].sender_keys.epoch = client.rooms[r].mls_group.epoch
           /\ client.rooms[r].my_leaf_index
                = own_leaf_index(client.rooms[r].mls_group)
           /\ \A l \in Leaves :
                client.rooms[r].sender_keys.gens[l] # NoKey
                    <=> l \in member_leaf_indices(client.rooms[r].mls_group)

\* C37: every RoomRemoved and DeliverMessage action the client returns names
\* the room of the event or frame that produced it.
C37_ActionsNameTheirRoom ==
    \A i \in 1..Len(client.actions) :
        client.actions[i].type \in {"RoomRemoved", "DeliverMessage"}
            => client.actions[i].room_id = client.room_id

\* C38: a message is delivered at most once: an AppMessage whose epoch,
\* sender and generation were delivered before in the room returns an error
\* and no DeliverMessage.
C38_DeliveredOnce ==
    [][(/\ ClientCalled("FrameReceived")
        /\ client'.frame.opcode = "AppMessage"
        /\ deserialize_encrypted_message(client'.frame.payload).ok
        /\ MessageKey(client'.frame) \in client.delivered)
        => /\ ~client'.ok
           /\ ~HasAction(client'.actions, "DeliverMessage")
           /\ client'.rooms = client.rooms]_vars

\* C38 witness: the peer's message of generation 0 was delivered in epoch 1
\* and came again: the second time it was refused as too old.
C38_Witness ==
    /\ client.op = "FrameReceived"
    /\ client.frame.opcode = "AppMessage"
    /\ MessageKey(client.frame) = <<1, 1, LeafIndex(2), 0>>
    /\ MessageKey(client.frame) \in client.delivered
    /\ ~client.ok
    /\ client.err.kind = "TooOldGeneration"

====
